---- MODULE Spec2Model ----
(***************************************************************************)
(* git-for-sql: peer-reviewed SQL scripts are imported from merged pull    *)
(* requests into a ledger (approved_scripts), executed on staging and      *)
(* production under a staging-first gate, and every attempt is written to  *)
(* an execution log (sql_execution_log).                                   *)
(*                                                                         *)
(* Strings of the program are sequences of one-character strings, so that  *)
(* split, trim, startsWith, includes and the regular expression of         *)
(* parseSQLMetadata are computed and not assumed.                          *)
(***************************************************************************)
EXTENDS Integers, Sequences, FiniteSets, TLC

(***************************************************************************)
(* Bounds of the model.                                                    *)
(***************************************************************************)
NumRequests == 2
NumSyncs == 2
NumHooks == 1
\* handlers the server has in flight at one time
MaxInFlight == 2
\* handlers the server runs in one behaviour
MaxHandlers == 3

(***************************************************************************)
(* Program constants.                                                      *)
(***************************************************************************)
\* config.minApprovals: parseInt(process.env.MIN_APPROVALS || "2")
MinApprovals == 2
\* content.split("\n").slice(0, 20)
MetadataLines == 20

Null == "null"
\* a string-valued field that was never assigned
Undefined == <<"undefined">>
NL == "\n"

(***************************************************************************)
(* String helpers (JavaScript String methods on character sequences).      *)
(***************************************************************************)
UpperChars == <<"A","B","C","D","E","F","G","H","I","J","K","L","M",
                "N","O","P","Q","R","S","T","U","V","W","X","Y","Z">>
LowerChars == <<"a","b","c","d","e","f","g","h","i","j","k","l","m",
                "n","o","p","q","r","s","t","u","v","w","x","y","z">>

ToLowerChar(c) ==
  IF \E i \in 1..26 : UpperChars[i] = c
    THEN LowerChars[CHOOSE i \in 1..26 : UpperChars[i] = c]
    ELSE c

toLowerCase(s) == [i \in 1..Len(s) |-> ToLowerChar(s[i])]

IsSpace(c) == c \in {" ", "\t", "\r", NL}

RECURSIVE trimStart(_)
trimStart(s) ==
  IF s # <<>> /\ IsSpace(Head(s)) THEN trimStart(Tail(s)) ELSE s

RECURSIVE trimEnd(_)
trimEnd(s) ==
  IF s # <<>> /\ IsSpace(s[Len(s)]) THEN trimEnd(SubSeq(s, 1, Len(s) - 1)) ELSE s

trim(s) == trimEnd(trimStart(s))

startsWith(s, p) == Len(s) >= Len(p) /\ SubSeq(s, 1, Len(p)) = p

endsWith(s, p) == Len(s) >= Len(p) /\ SubSeq(s, Len(s) - Len(p) + 1, Len(s)) = p

includes(s, p) ==
  \E i \in 1..(Len(s) - Len(p) + 1) : SubSeq(s, i, i + Len(p) - 1) = p

\* s.split(sep) for a one-character separator
RECURSIVE split(_, _)
split(s, sep) ==
  IF \A i \in 1..Len(s) : s[i] # sep
    THEN <<s>>
    ELSE LET k == CHOOSE i \in 1..Len(s) :
                    s[i] = sep /\ \A j \in 1..(i - 1) : s[j] # sep
         IN  <<SubSeq(s, 1, k - 1)>> \o split(SubSeq(s, k + 1, Len(s)), sep)

\* line.replace(prefix, "") when line.startsWith(prefix)
dropPrefix(s, p) == SubSeq(s, Len(p) + 1, Len(s))

slice(seq, n) == SubSeq(seq, 1, IF Len(seq) < n THEN Len(seq) ELSE n)

\* file.filename.split("/").pop() || file.filename
lastSegment(filename) ==
  LET parts == split(filename, "/")
      last == parts[Len(parts)]
  IN  IF last # <<>> THEN last ELSE filename

(***************************************************************************)
(* parseSQLMetadata and extractTargetDatabase.                             *)
(***************************************************************************)
K_Author == <<"-","-"," ","A","u","t","h","o","r",":">>
K_Purpose == <<"-","-"," ","P","u","r","p","o","s","e",":">>
K_Target == <<"-","-"," ","T","a","r","g","e","t",":">>
K_Date == <<"-","-"," ","D","a","t","e",":">>
K_directprod == <<"d","i","r","e","c","t","p","r","o","d">>
K_direct_dash == <<"d","i","r","e","c","t","-","p","r","o","d">>
K_direct_under == <<"d","i","r","e","c","t","_","p","r","o","d">>
K_true == <<"t","r","u","e">>
K_yes == <<"y","e","s">>
K_one == <<"1">>
K_staging == <<"s","t","a","g","i","n","g">>
K_production == <<"p","r","o","d","u","c","t","i","o","n">>

\* the regular expression's \s within one line
RECURSIVE skipSpaces(_)
skipSpaces(s) ==
  IF s # <<>> /\ IsSpace(Head(s)) THEN skipSpaces(Tail(s)) ELSE s

\* (true|yes|1)? at the start of d
DirectProdGroup(d) ==
  IF startsWith(d, K_true) THEN "true"
  ELSE IF startsWith(d, K_yes) THEN "yes"
  ELSE IF startsWith(d, K_one) THEN "1"
  ELSE "none"

\* :?\s*(true|yes|1)? at the start of b
DirectProdAfterName(b) ==
  DirectProdGroup(toLowerCase(skipSpaces(IF startsWith(b, <<":">>) THEN Tail(b) ELSE b)))

\* DirectProd\s*:?\s*(true|yes|1)? at the start of a
DirectProdAfterDashes(a) ==
  IF ~startsWith(toLowerCase(a), K_directprod) THEN "nomatch"
  ELSE DirectProdAfterName(skipSpaces(dropPrefix(a, K_directprod)))

\* /--\s*DirectProd\s*:?\s*(true|yes|1)?/i tried at the start of s:
\* "nomatch", or the captured group ("none" when the group did not take part)
DirectProdMatchAt(s) ==
  IF ~startsWith(s, <<"-","-">>) THEN "nomatch"
  ELSE DirectProdAfterDashes(skipSpaces(dropPrefix(s, <<"-","-">>)))

\* line.match(...): the leftmost position where the expression matches
DirectProdMatch(line) ==
  IF \A i \in 1..Len(line) : DirectProdMatchAt(SubSeq(line, i, Len(line))) = "nomatch"
    THEN "nomatch"
    ELSE LET k == CHOOSE i \in 1..Len(line) :
                    /\ DirectProdMatchAt(SubSeq(line, i, Len(line))) # "nomatch"
                    /\ \A j \in 1..(i - 1) :
                         DirectProdMatchAt(SubSeq(line, j, Len(line))) = "nomatch"
         IN  DirectProdMatchAt(SubSeq(line, k, Len(line)))

\* one iteration of the loop over the lines: the metadata after this line
ParseLine(metadata, line) ==
  LET lowerLine == trim(toLowerCase(line))
  IN  IF startsWith(line, K_Author)
        THEN [metadata EXCEPT !.author = trim(dropPrefix(line, K_Author))]
      ELSE IF startsWith(line, K_Purpose)
        THEN [metadata EXCEPT !.purpose = trim(dropPrefix(line, K_Purpose))]
      ELSE IF startsWith(line, K_Target)
        THEN [metadata EXCEPT !.target = trim(dropPrefix(line, K_Target))]
      ELSE IF startsWith(line, K_Date)
        THEN [metadata EXCEPT !.date = trim(dropPrefix(line, K_Date))]
      ELSE IF \/ includes(lowerLine, K_directprod)
              \/ includes(lowerLine, K_direct_dash)
              \/ includes(lowerLine, K_direct_under)
        THEN LET m == DirectProdMatch(line)
             IN  [metadata EXCEPT !.directProd =
                    IF m # "nomatch"
                      THEN m = "true" \/ m = "yes" \/ m = "1" \/ m = "none"
                      ELSE FALSE]
      ELSE metadata

RECURSIVE ParseLines(_, _)
ParseLines(metadata, lines) ==
  IF lines = <<>> THEN metadata
  ELSE ParseLines(ParseLine(metadata, Head(lines)), Tail(lines))

\* an unassigned metadata.directProd is FALSE here: every use in the program is
\* the test metadata.directProd === true
parseSQLMetadata(content) ==
  ParseLines([author |-> Undefined, purpose |-> Undefined, target |-> Undefined,
              date |-> Undefined, directProd |-> FALSE],
             slice(split(content, NL), MetadataLines))

TargetName(target) ==
  IF target = K_staging THEN "staging"
  ELSE IF target = K_production THEN "production"
  ELSE Null

\* TargetOfMetadata comparing the value as it is spelled
TargetOfMetadata_asSpelled(metadata) ==
  IF metadata.target # Undefined /\ metadata.target # <<>>
    THEN TargetName(metadata.target)
    ELSE Null

TargetOfMetadata(metadata) ==
  IF metadata.target # Undefined /\ metadata.target # <<>>
    THEN TargetName(toLowerCase(metadata.target))
    ELSE Null

extractTargetDatabase(content) ==
  IF content # <<>> THEN TargetOfMetadata(parseSQLMetadata(content)) ELSE Null

(***************************************************************************)
(* analyzeSQL and needsTransaction: the statement analysis of the          *)
(* execution engine, on the text of a script.                              *)
(***************************************************************************)
K_dashes == <<"-","-">>
K_open == <<"/","*">>
K_close == <<"*","/">>
K_returning == <<"r","e","t","u","r","n","i","n","g">>
K_select == <<"s","e","l","e","c","t">>
K_begin == <<"b","e","g","i","n">>
K_commit == <<"c","o","m","m","i","t">>
K_commit_semi == <<"c","o","m","m","i","t",";">>

\* the rest of the line, from its end-of-line character on
RECURSIVE dropToNewline(_)
dropToNewline(s) ==
  IF s = <<>> \/ Head(s) = NL THEN s ELSE dropToNewline(Tail(s))

\* the line comments removed: each from its marker to the end of its line
RECURSIVE stripLineComments(_)
stripLineComments(s) ==
  IF s = <<>> THEN <<>>
  ELSE IF startsWith(s, K_dashes) THEN stripLineComments(dropToNewline(s))
  ELSE <<Head(s)>> \o stripLineComments(Tail(s))

\* the text after the first closing delimiter
RECURSIVE afterClose(_)
afterClose(s) ==
  IF startsWith(s, K_close) THEN SubSeq(s, 3, Len(s)) ELSE afterClose(Tail(s))

\* the block comments removed: each from its opening delimiter to the next
\* closing one (no nesting); an opening delimiter that is never closed stays
RECURSIVE stripBlockComments(_)
stripBlockComments(s) ==
  IF s = <<>> THEN <<>>
  ELSE IF startsWith(s, K_open) /\ includes(SubSeq(s, 3, Len(s)), K_close)
    THEN stripBlockComments(afterClose(SubSeq(s, 3, Len(s))))
  ELSE <<Head(s)>> \o stripBlockComments(Tail(s))

\* stripComments that leaves the block comments in
stripComments_lineOnly(sql) == stripLineComments(sql)

\* first the line comments, then the block comments
stripComments(sql) == stripBlockComments(stripLineComments(sql))

\* statementCount as the number of non-empty segments between terminators
statementCount_segments(cleaned) ==
  Cardinality({i \in 1..Len(split(cleaned, ";")) : trim(split(cleaned, ";")[i]) # <<>>})

\* statementCount: the terminator characters of the comment-stripped text
statementCount(cleaned) == Cardinality({i \in 1..Len(cleaned) : cleaned[i] = ";"})

\* the trimmed, lower-cased text begins with BEGIN and ends with COMMIT or
\* COMMIT;
isWrappedText(t) ==
  startsWith(t, K_begin) /\ (endsWith(t, K_commit) \/ endsWith(t, K_commit_semi))

isAlreadyWrapped(cleaned) == isWrappedText(trim(toLowerCase(cleaned)))

needsTransactionOf(cleaned) == statementCount(cleaned) > 1 /\ ~isAlreadyWrapped(cleaned)

needsTransaction(sql) == needsTransactionOf(stripComments(sql))

isSelectQuery(cleaned) == startsWith(trim(toLowerCase(cleaned)), K_select)

hasReturning(cleaned) == includes(toLowerCase(cleaned), K_returning)

analysisOf(cleaned) ==
  [isSelectQuery |-> isSelectQuery(cleaned),
   hasReturning |-> hasReturning(cleaned),
   shouldCaptureRows |-> isSelectQuery(cleaned) \/ hasReturning(cleaned)]

analyzeSQL(sql) == analysisOf(stripComments(sql))

(***************************************************************************)
(* The change source: the merged pull requests of the repository, in the   *)
(* order pulls.list returns them. File contents are named by an id;        *)
(* TextOf gives the text.                                                   *)
(***************************************************************************)
\* config.github.sqlFolder (GITHUB_SQL_FOLDER=sql/)
SqlFolder == <<"s","q","l","/">>
SqlExt == <<".","s","q","l">>

F_a == <<"s","q","l","/","a",".","s","q","l">>
F_xa == <<"s","q","l","/","x","/","a",".","s","q","l">>
F_b == <<"s","q","l","/","b",".","s","q","l">>
F_d == <<"s","q","l","/","d",".","s","q","l">>
F_readme == <<"R","E","A","D","M","E",".","m","d">>

T_plain == <<"-","-"," ","T","a","r","g","e","t",":"," ","P","r","o","d","u","c","t","i","o","n",
             NL,"S",";">>
T_direct == <<"-","-"," ","D","i","r","e","c","t","P","r","o","d",NL,"S",";">>

TextOf(id) ==
  CASE id = "plain" -> T_plain
    [] id = "direct" -> T_direct
    [] OTHER -> <<>>

PullRequests == <<
  [number |-> 1,
   reviews |-> <<[state |-> "APPROVED", user |-> "alice"],
                 [state |-> "APPROVED", user |-> "bob"]>>,
   files |-> <<[filename |-> F_a, status |-> "added", content |-> "plain"],
               [filename |-> F_readme, status |-> "modified", content |-> "none"]>>],
  [number |-> 2,
   reviews |-> <<[state |-> "APPROVED", user |-> "alice"],
                 [state |-> "COMMENTED", user |-> "bob"],
                 [state |-> "APPROVED", user |-> "alice"]>>,
   files |-> <<[filename |-> F_b, status |-> "added", content |-> "direct"]>>],
  [number |-> 3,
   reviews |-> <<[state |-> "APPROVED", user |-> Null],
                 [state |-> "APPROVED", user |-> "bob"]>>,
   files |-> <<[filename |-> F_xa, status |-> "added", content |-> "direct"],
               [filename |-> F_d, status |-> "added", content |-> "direct"]>>]
>>

PRNumbers == {PullRequests[i].number : i \in 1..Len(PullRequests)}
PRByNumber(n) == PullRequests[CHOOSE i \in 1..Len(PullRequests) : PullRequests[i].number = n]

RECURSIVE SeqToSet(_)
SeqToSet(seq) == IF seq = <<>> THEN {} ELSE {Head(seq)} \cup SeqToSet(Tail(seq))

RECURSIVE SelectSeq2(_, _)
SelectSeq2(seq, keep) ==
  IF seq = <<>> THEN <<>>
  ELSE (IF Head(seq) \in keep THEN <<Head(seq)>> ELSE <<>>) \o SelectSeq2(Tail(seq), keep)

\* getPRApprovers without new Set: one login per approving review
getPRApprovers_noDedupe(prNumber, ok) ==
  IF ~ok THEN <<>>
  ELSE LET reviews == PRByNumber(prNumber).reviews
           approved == SelectSeq2(reviews, {r \in SeqToSet(reviews) : r.state = "APPROVED"})
       IN  [i \in 1..Len(approved) |->
              IF approved[i].user # Null THEN approved[i].user ELSE "unknown"]

\* [...new Set(list)]: the first occurrence of every element, in order
RECURSIVE Unique(_)
Unique(seq) ==
  IF seq = <<>> THEN <<>>
  ELSE LET init == Unique(SubSeq(seq, 1, Len(seq) - 1))
           last == seq[Len(seq)]
       IN  IF last \in SeqToSet(init) THEN init ELSE Append(init, last)

\* getPRApprovers: the logins of the APPROVED reviews, made unique by new Set;
\* a failed listReviews call is caught and gives []
getPRApprovers(prNumber, ok) ==
  IF ~ok THEN <<>>
  ELSE LET reviews == PRByNumber(prNumber).reviews
           approved == SelectSeq2(reviews, {r \in SeqToSet(reviews) : r.state = "APPROVED"})
       IN  Unique([i \in 1..Len(approved) |->
                     IF approved[i].user # Null THEN approved[i].user ELSE "unknown"])

\* getPRFiles: a failed listFiles call is caught and gives []
getPRFiles(prNumber, ok) == IF ~ok THEN <<>> ELSE PRByNumber(prNumber).files

\* the filter on the files of a pull request
IsSqlFile(f) ==
  /\ endsWith(f.filename, SqlExt)
  /\ f.status # "removed"
  /\ (SqlFolder # <<>> => startsWith(f.filename, SqlFolder))

FilterSqlFiles(files) == SelectSeq2(files, {f \in SeqToSet(files) : IsSqlFile(f)})

\* what repos.getContent does: the content, a 404, or another error
FetchOutcomes == {"ok", "notfound", "error"}

\* fetchScriptFromGitHub: the content, or null on any error (404 included)
fetchScriptFromGitHub(file, ok) == IF ok THEN file.content ELSE Null

\* !content
IsFalsyContent(c) == c = Null \/ TextOf(c) = <<>>

ContentIds == {"plain", "direct", "none"}

\* parseSQLMetadata and extractTargetDatabase of each text of the change source
MetadataOf == [id \in ContentIds |-> parseSQLMetadata(TextOf(id))]
TargetOf == [id \in ContentIds |-> extractTargetDatabase(TextOf(id))]

\* the eligible files of each pull request, each with its script name
SqlFilesOf ==
  [n \in PRNumbers |->
     LET files == FilterSqlFiles(getPRFiles(n, TRUE))
     IN  [i \in 1..Len(files) |->
            [filename |-> files[i].filename, content |-> files[i].content,
             scriptName |-> lastSegment(files[i].filename)]]]

(***************************************************************************)
(* State.                                                                  *)
(***************************************************************************)
VARIABLES
  ledger,        \* approved_scripts: the rows in id order (id = position)
  executionLog,  \* sql_execution_log: the rows in id order
  req,           \* the execution requests (action of the script page)
  sync,          \* the reconciliation passes (syncScriptsFromGitHub)
  hook,          \* the webhook deliveries (action of api.webhook.github)
  input,         \* the text handed to the functions on text
  output,        \* what they returned for it
  exec,          \* the engine's invocation for each execution request
  pool,          \* the connections checked out of the pool of each target
  db             \* the effects stored in each target database

vars == <<ledger, executionLog, req, sync, hook, input, output, exec, pool, db>>

\* what the handlers of the routes leave alone
engineVars == <<exec, pool, db>>

textVars == <<input, output>>

Requests == 1..NumRequests
Syncs == 1..NumSyncs
Hooks == 1..NumHooks

\* what a form can submit as targetDatabase ("" is an absent field)
SubmittedTargets == {"", "staging", "production", "audit"}

NoScript == [name |-> <<>>, content |-> "none", targetDatabase |-> "none",
             githubPrUrl |-> 0, approvers |-> <<>>, stagingExecuted |-> FALSE,
             productionExecuted |-> FALSE, directProd |-> FALSE]

(***************************************************************************)
(* The audit database: db.server and audit.server over the two tables.     *)
(***************************************************************************)
\* script_name without UNIQUE
UniqueViolation_none(rows, name) == FALSE

\* script_name VARCHAR(255) UNIQUE NOT NULL
UniqueViolation(rows, name) == \E i \in 1..Len(rows) : rows[i].name = name

\* the row addApprovedScript inserts: the execution columns take their defaults
NewRow(data) ==
  [name |-> data.scriptName, content |-> data.scriptContent,
   targetDatabase |-> data.targetDatabase, githubPrUrl |-> data.githubPrUrl,
   approvers |-> data.approvers, stagingExecuted |-> FALSE,
   productionExecuted |-> FALSE, directProd |-> data.directProd]

\* addApprovedScript(data): <<success, rows after>>; dbOk = the statement ran
addApprovedScript(rows, data, dbOk) ==
  IF dbOk /\ ~UniqueViolation(rows, data.scriptName)
    THEN <<TRUE, Append(rows, NewRow(data))>>
    ELSE <<FALSE, rows>>

getExistingScriptNames(rows) == {rows[i].name : i \in 1..Len(rows)}

getScriptById(rows, id) == IF id \in 1..Len(rows) THEN rows[id] ELSE NoScript

canExecuteOnProduction(rows, id) ==
  /\ id \in 1..Len(rows)
  /\ (rows[id].stagingExecuted \/ rows[id].directProd)

\* updateScriptExecutionStatus(id, target): the rows after
updateScriptExecutionStatus(rows, id, target) ==
  IF id \notin 1..Len(rows) THEN rows
  ELSE IF target = "staging" THEN [rows EXCEPT ![id].stagingExecuted = TRUE]
  ELSE IF target = "production" THEN [rows EXCEPT ![id].productionExecuted = TRUE]
  ELSE rows

\* logExecution(entry): the log after a write that went through
logExecution(log, entry) == Append(log, entry)

\* executeSQL(target, sql): the engine never raises; outcome is what the
\* target database made of the script. Only staging and production have a pool.
executeSQL(target, sql, outcome) ==
  IF target \in {"staging", "production"}
    THEN [success |-> (outcome = "ok"), error |-> IF outcome = "ok" THEN "none" ELSE outcome]
    ELSE [success |-> FALSE, error |-> "connection"]

EngineOutcomes == {"ok", "statement"}

(***************************************************************************)
(* Initial state: empty tables, nothing in flight.                         *)
(***************************************************************************)
IdleReq ==
  [pc |-> "idle", scriptId |-> 0, script |-> NoScript, targetDatabase |-> "none",
   result |-> "none", response |-> "none",
   gate |-> "none", stored |-> FALSE, engineCalls |-> 0, engineTarget |-> "none", engineSql |-> "none",
   logCalls |-> 0, logStatus |-> "none", logWritten |-> FALSE,
   updateCalls |-> 0, updated |-> FALSE]

NoStats == [synced |-> 0, skipped |-> 0, errors |-> 0]

IdleSync ==
  [pc |-> "idle", existingSet |-> {}, mergedPRs |-> <<>>, prIdx |-> 0,
   approvers |-> <<>>, sqlFiles |-> <<>>, fileIdx |-> 0, stats |-> NoStats,
   inserted |-> 0, failed |-> FALSE, dup |-> FALSE, after |-> {},
   short |-> {}, listed |-> {}, fetched |-> {}, insertedFor |-> {}, unexpected |-> 0,
   notFound |-> 0, met |-> {}, lookup |-> "none"]

IdleHook ==
  [pc |-> "idle", prNumber |-> 0, approvers |-> <<>>, sqlFiles |-> <<>>,
   fileIdx |-> 0, status |-> 0, inserted |-> 0, dup |-> FALSE, metExecuted |-> FALSE,
   signed |-> "none", parsed |-> FALSE, event |-> "none", called |-> FALSE]

\* no text handed over, nothing returned
NoInput == [kind |-> "none", chars |-> <<>>]

NoOutput == [kind |-> "none"]

\* the execution targets: one pool and one database each
Targets == {"staging", "production"}

\* an engine that was not invoked
IdleExec ==
  [conn |-> 0, target |-> "none", planned |-> FALSE, statements |-> 0, next |-> 0,
   ran |-> {}, pending |-> {}, tx |-> "none", failedAt |-> 0, error |-> "none",
   raised |-> FALSE]

Init ==
  /\ ledger = <<>>
  /\ executionLog = <<>>
  /\ req = [r \in Requests |-> IdleReq]
  /\ sync = [s \in Syncs |-> IdleSync]
  /\ hook = [h \in Hooks |-> IdleHook]
  /\ input = NoInput
  /\ output = NoOutput
  /\ exec = [r \in Requests |-> IdleExec]
  /\ pool = [t \in Targets |-> {}]
  /\ db = [t \in Targets |-> {}]

(***************************************************************************)
(* Scheduling: a handler runs from one await to the next without           *)
(* interruption; any handler in flight may take the next step. The slots   *)
(* of one kind are taken in order (they are interchangeable).              *)
(***************************************************************************)
Running(procs) == {p \in DOMAIN procs : procs[p].pc \notin {"idle", "done"}}

InFlight == Cardinality(Running(req)) + Cardinality(Running(sync)) + Cardinality(Running(hook))

Started(procs) == {p \in DOMAIN procs : procs[p].pc # "idle"}

Handled == Cardinality(Started(req)) + Cardinality(Started(sync)) + Cardinality(Started(hook))

CanStart(procs, p) ==
  /\ procs[p].pc = "idle"
  /\ InFlight < MaxInFlight
  /\ Handled < MaxHandlers
  /\ \A q \in DOMAIN procs : q < p => procs[q].pc # "idle"

(***************************************************************************)
(* The execution request: action of the script page.                       *)
(***************************************************************************)
\* StartRequest with the gate left out: a production request goes straight
\* to the engine
StartRequest_noGate(r) ==
  /\ CanStart(req, r)
  /\ \E user \in BOOLEAN, id \in 0..Len(ledger), submitted \in SubmittedTargets :
       LET script == getScriptById(ledger, id)
           targetDatabase == IF submitted = "" THEN "staging" ELSE submitted
       IN  req' = [req EXCEPT ![r] =
             IF ~user THEN [@ EXCEPT !.pc = "done", !.response = "401"]
             ELSE IF script = NoScript
               THEN [@ EXCEPT !.pc = "done", !.response = "404"]
             ELSE [@ EXCEPT !.pc = "engine",
                            !.scriptId = id, !.script = script,
                            !.targetDatabase = targetDatabase]]
  /\ UNCHANGED <<ledger, executionLog, sync, hook>>

\* lines 59-79 and, for a target other than production, up to the call of
\* executeSQL: session, getScriptById, form data
StartRequest(r) ==
  /\ CanStart(req, r)
  /\ \E user \in BOOLEAN, id \in 0..Len(ledger), submitted \in SubmittedTargets :
       LET script == getScriptById(ledger, id)
           targetDatabase == IF submitted = "" THEN "staging" ELSE submitted
       IN  req' = [req EXCEPT ![r] =
             IF ~user THEN [@ EXCEPT !.pc = "done", !.response = "401"]
             ELSE IF script = NoScript
               THEN [@ EXCEPT !.pc = "done", !.response = "404"]
             ELSE [@ EXCEPT !.pc = IF targetDatabase = "production" THEN "gate" ELSE "engine",
                            !.scriptId = id, !.script = script,
                            !.targetDatabase = targetDatabase]]
  /\ UNCHANGED <<ledger, executionLog, sync, hook>>

\* observation: what the stored row says when the gate is evaluated
StoredEligible(rows, id) ==
  id \in 1..Len(rows) /\ (rows[id].stagingExecuted \/ rows[id].directProd)

\* Gate with the result of canExecuteOnProduction ignored
Gate_alwaysPass(r) ==
  /\ req[r].pc = "gate"
  /\ req' = [req EXCEPT ![r] =
           [@ EXCEPT !.pc = "engine", !.gate = "yes",
                     !.stored = StoredEligible(ledger, req[r].scriptId)]]
  /\ UNCHANGED <<ledger, executionLog, sync, hook>>

\* Gate deciding from the script record loaded at the start of the request
Gate_stale(r) ==
  /\ req[r].pc = "gate"
  /\ LET canExecute == req[r].script.stagingExecuted \/ req[r].script.directProd
     IN  req' = [req EXCEPT ![r] =
           IF ~canExecute
             THEN [@ EXCEPT !.pc = "done", !.response = "rejected", !.gate = "no",
                            !.stored = StoredEligible(ledger, req[r].scriptId)]
             ELSE [@ EXCEPT !.pc = "engine", !.gate = "yes",
                            !.stored = StoredEligible(ledger, req[r].scriptId)]]
  /\ UNCHANGED <<ledger, executionLog, sync, hook>>

\* Gate that also rejects a script already executed on production
Gate_once(r) ==
  /\ req[r].pc = "gate"
  /\ LET canExecute == /\ canExecuteOnProduction(ledger, req[r].scriptId)
                       /\ ~ledger[req[r].scriptId].productionExecuted
     IN  req' = [req EXCEPT ![r] =
           IF ~canExecute
             THEN [@ EXCEPT !.pc = "done", !.response = "rejected", !.gate = "no",
                            !.stored = StoredEligible(ledger, req[r].scriptId)]
             ELSE [@ EXCEPT !.pc = "engine", !.gate = "yes",
                            !.stored = StoredEligible(ledger, req[r].scriptId)]]
  /\ UNCHANGED <<ledger, executionLog, sync, hook>>

\* lines 81-91: await canExecuteOnProduction(scriptId)
Gate(r) ==
  /\ req[r].pc = "gate"
  /\ LET canExecute == canExecuteOnProduction(ledger, req[r].scriptId)
     IN  req' = [req EXCEPT ![r] =
           IF ~canExecute
             THEN [@ EXCEPT !.pc = "done", !.response = "rejected", !.gate = "no",
                            !.stored = StoredEligible(ledger, req[r].scriptId)]
             ELSE [@ EXCEPT !.pc = "engine", !.gate = "yes",
                            !.stored = StoredEligible(ledger, req[r].scriptId)]]
  /\ UNCHANGED <<ledger, executionLog, sync, hook>>

\* Engine that marks the script executed as soon as the engine succeeds,
\* before the log is written
Engine_marksFirst(r) ==
  /\ req[r].pc = "engine"
  /\ \E outcome \in EngineOutcomes :
       LET result == executeSQL(req[r].targetDatabase, req[r].script.content, outcome)
       IN  /\ req' = [req EXCEPT ![r] =
                 [@ EXCEPT !.pc = "log",
                           !.result = IF result.success THEN "success" ELSE "error",
                           !.engineCalls = @ + 1,
                           !.engineTarget = req[r].targetDatabase,
                           !.engineSql = req[r].script.content]]
           /\ ledger' = IF result.success
                          THEN updateScriptExecutionStatus(ledger, req[r].scriptId,
                                                           req[r].targetDatabase)
                          ELSE ledger
  /\ UNCHANGED <<executionLog, sync, hook>>

\* lines 93-97: await executeSQL(targetDatabase, script.script_content)
Engine(r) ==
  /\ req[r].pc = "engine"
  /\ \E outcome \in EngineOutcomes :
       LET result == executeSQL(req[r].targetDatabase, req[r].script.content, outcome)
       IN  req' = [req EXCEPT ![r] =
             [@ EXCEPT !.pc = "log",
                       !.result = IF result.success THEN "success" ELSE "error",
                       !.engineCalls = @ + 1,
                       !.engineTarget = req[r].targetDatabase,
                       !.engineSql = req[r].script.content]]
  /\ UNCHANGED <<ledger, executionLog, sync, hook>>

\* LogEntry with the target read from the script's row
LogEntry_rowTarget(r) ==
  [scriptName |-> req[r].script.name,
   scriptContent |-> req[r].script.content,
   targetDatabase |-> req[r].script.targetDatabase,
   status |-> IF req[r].result = "success" THEN "success" ELSE "error",
   githubPrUrl |-> req[r].script.githubPrUrl,
   approvers |-> req[r].script.approvers]

\* the entry the handler hands to logExecution
LogEntry(r) ==
  [scriptName |-> req[r].script.name,
   scriptContent |-> req[r].script.content,
   targetDatabase |-> req[r].targetDatabase,
   status |-> IF req[r].result = "success" THEN "success" ELSE "error",
   githubPrUrl |-> req[r].script.githubPrUrl,
   approvers |-> req[r].script.approvers]

\* Log that also stores the outcome in the script's execution flag
Log_resets(r) ==
  /\ req[r].pc = "log"
  /\ \E written \in BOOLEAN :
       /\ executionLog' = IF written THEN logExecution(executionLog, LogEntry(r))
                                     ELSE executionLog
       /\ req' = [req EXCEPT ![r] =
             [@ EXCEPT !.pc = IF req[r].result = "success" THEN "update" ELSE "done",
                       !.response = IF req[r].result = "success" THEN @ ELSE "error",
                       !.logCalls = @ + 1,
                       !.logStatus = LogEntry(r).status,
                       !.logWritten = written]]
       /\ ledger' = IF req[r].result = "success" \/ req[r].targetDatabase # "staging"
                      THEN ledger
                      ELSE [ledger EXCEPT ![req[r].scriptId].stagingExecuted = FALSE]
  /\ UNCHANGED <<sync, hook>>

\* Log that records successful executions only
Log_onlyOnSuccess(r) ==
  /\ req[r].pc = "log"
  /\ \E written \in BOOLEAN :
       IF req[r].result = "success"
         THEN /\ executionLog' = IF written THEN logExecution(executionLog, LogEntry(r))
                                            ELSE executionLog
              /\ req' = [req EXCEPT ![r] =
                    [@ EXCEPT !.pc = "update", !.logCalls = @ + 1,
                              !.logStatus = LogEntry(r).status, !.logWritten = written]]
         ELSE /\ executionLog' = executionLog
              /\ req' = [req EXCEPT ![r] = [@ EXCEPT !.pc = "done", !.response = "error"]]
  /\ UNCHANGED <<ledger, sync, hook>>

\* Log without the try/catch: a failed write ends the request
Log_propagates(r) ==
  /\ req[r].pc = "log"
  /\ \E written \in BOOLEAN :
       /\ executionLog' = IF written THEN logExecution(executionLog, LogEntry(r))
                                     ELSE executionLog
       /\ req' = [req EXCEPT ![r] =
             IF ~written
               THEN [@ EXCEPT !.pc = "done", !.response = "500", !.logCalls = @ + 1,
                              !.logStatus = LogEntry(r).status, !.logWritten = FALSE]
               ELSE [@ EXCEPT !.pc = IF req[r].result = "success" THEN "update" ELSE "done",
                              !.response = IF req[r].result = "success" THEN @ ELSE "error",
                              !.logCalls = @ + 1,
                              !.logStatus = LogEntry(r).status,
                              !.logWritten = written]]
  /\ UNCHANGED <<ledger, sync, hook>>

\* lines 99-117: try { await logExecution(...) } catch { }
Log(r) ==
  /\ req[r].pc = "log"
  /\ \E written \in BOOLEAN :
       /\ executionLog' = IF written THEN logExecution(executionLog, LogEntry(r))
                                     ELSE executionLog
       /\ req' = [req EXCEPT ![r] =
             [@ EXCEPT !.pc = IF req[r].result = "success" THEN "update" ELSE "done",
                       !.response = IF req[r].result = "success" THEN @ ELSE "error",
                       !.logCalls = @ + 1,
                       !.logStatus = LogEntry(r).status,
                       !.logWritten = written]]
  /\ UNCHANGED <<ledger, sync, hook>>

\* Update that marks the script executed on production whatever the target
Update_marksProduction(r) ==
  /\ req[r].pc = "update"
  /\ \E stored \in BOOLEAN :
       /\ ledger' = IF stored
                      THEN updateScriptExecutionStatus(ledger, req[r].scriptId, "production")
                      ELSE ledger
       /\ req' = [req EXCEPT ![r] =
             [@ EXCEPT !.pc = "done", !.response = "success",
                       !.updateCalls = @ + 1, !.updated = stored]]
  /\ UNCHANGED <<executionLog, sync, hook>>

\* Update that marks the script executed on both targets
Update_marksBoth(r) ==
  /\ req[r].pc = "update"
  /\ \E stored \in BOOLEAN :
       /\ ledger' = IF stored
                      THEN updateScriptExecutionStatus(
                             updateScriptExecutionStatus(ledger, req[r].scriptId, "staging"),
                             req[r].scriptId, "production")
                      ELSE ledger
       /\ req' = [req EXCEPT ![r] =
             [@ EXCEPT !.pc = "done", !.response = "success",
                       !.updateCalls = @ + 1, !.updated = stored]]
  /\ UNCHANGED <<executionLog, sync, hook>>

\* lines 119-149: if (result.success) try { await updateScriptExecutionStatus } catch { }
Update(r) ==
  /\ req[r].pc = "update"
  /\ \E stored \in BOOLEAN :
       /\ ledger' = IF stored
                      THEN updateScriptExecutionStatus(ledger, req[r].scriptId,
                                                       req[r].targetDatabase)
                      ELSE ledger
       /\ req' = [req EXCEPT ![r] =
             [@ EXCEPT !.pc = "done", !.response = "success",
                       !.updateCalls = @ + 1, !.updated = stored]]
  /\ UNCHANGED <<executionLog, sync, hook>>

(***************************************************************************)
(* The reconciliation pass: syncScriptsFromGitHub, called by api.sync with *)
(* addApprovedScript, getExistingScriptNames and config.minApprovals.      *)
(***************************************************************************)
\* getMergedPRs(50)
MergedLimit == 50

\* getMergedPRs(limit): the numbers of the merged pull requests, [] when
\* pulls.list fails
getMergedPRs(limit, ok) ==
  IF ~ok THEN <<>>
  ELSE slice([i \in 1..Len(PullRequests) |-> PullRequests[i].number], limit)

\* the data both callers hand to addApprovedScript for a fetched file
ScriptDataOf(scriptName, content, prNumber, approvers, metadata, extracted) ==
  [scriptName |-> scriptName, scriptContent |-> content,
   targetDatabase |-> IF extracted # Null THEN extracted ELSE "staging",
   githubPrUrl |-> prNumber,
   approvers |-> approvers, directProd |-> (metadata.directProd = TRUE)]

ScriptData(scriptName, content, prNumber, approvers) ==
  ScriptDataOf(scriptName, content, prNumber, approvers,
               MetadataOf[content], TargetOf[content])

\* continue of the loop over mergedPRs: the next pull request, or the summary
NextPR(p) ==
  IF p.prIdx < Len(p.mergedPRs)
    THEN [p EXCEPT !.pc = "pr", !.prIdx = @ + 1, !.sqlFiles = <<>>, !.fileIdx = 0,
                   !.approvers = <<>>]
    ELSE [p EXCEPT !.pc = "done", !.prIdx = 0, !.sqlFiles = <<>>, !.fileIdx = 0,
                   !.approvers = <<>>, !.mergedPRs = <<>>, !.existingSet = {},
                   !.listed = {}, !.fetched = {}, !.insertedFor = {}, !.unexpected = 0,
                   !.notFound = 0, !.met = {}]

\* continue of the loop over sqlFiles
NextFile(p) ==
  IF p.fileIdx < Len(p.sqlFiles) THEN [p EXCEPT !.fileIdx = @ + 1] ELSE NextPR(p)

\* observation: the ledger holds a row of this name
Stored(scriptName) == \E i \in 1..Len(ledger) : ledger[i].name = scriptName

\* observation: the ledger holds a row of this name with an execution flag set
StoredExecuted(scriptName) ==
  \E i \in 1..Len(ledger) :
    ledger[i].name = scriptName /\ (ledger[i].stagingExecuted \/ ledger[i].productionExecuted)

\* lines 279-286: getExistingScriptNames(), getMergedPRs(50)
SyncStart(s) ==
  /\ CanStart(sync, s)
  /\ \E listOk \in BOOLEAN :
       LET mergedPRs == getMergedPRs(MergedLimit, listOk)
       IN  sync' = [sync EXCEPT ![s] =
             [@ EXCEPT !.pc = IF mergedPRs = <<>> THEN "done" ELSE "pr",
                       !.existingSet = getExistingScriptNames(ledger),
                       !.mergedPRs = mergedPRs,
                       !.prIdx = IF mergedPRs = <<>> THEN 0 ELSE 1,
                       !.failed = @ \/ ~listOk,
                       !.after = {t \in Syncs : sync[t].pc = "done"}]]
  /\ UNCHANGED <<ledger, executionLog, req, hook>>

\* SyncPR with the files listed before the approvals are counted, and a pull
\* request without enough approvals counted as an error
SyncPR_listsFirst(s) ==
  /\ sync[s].pc = "pr"
  /\ \E approversOk \in BOOLEAN, filesOk \in BOOLEAN :
       LET p == [sync[s] EXCEPT !.lookup = IF approversOk THEN "ok" ELSE "failed"]
           prNumber == p.mergedPRs[p.prIdx]
           approvers == getPRApprovers(prNumber, approversOk)
           sqlFiles == IF filesOk THEN SqlFilesOf[prNumber] ELSE <<>>
       IN  sync' = [sync EXCEPT ![s] =
             IF Len(approvers) < MinApprovals
               THEN NextPR([p EXCEPT !.stats.errors = @ + 1,
                                     !.failed = @ \/ ~approversOk,
                                     !.short = @ \cup {prNumber},
                                     !.listed = @ \cup {prNumber}])
             ELSE IF Len(sqlFiles) = 0
               THEN NextPR([p EXCEPT !.stats.skipped = @ + 1,
                                     !.failed = @ \/ ~filesOk,
                                     !.listed = @ \cup {prNumber}])
             ELSE [p EXCEPT !.pc = "file", !.approvers = approvers,
                            !.sqlFiles = sqlFiles, !.fileIdx = 1,
                            !.listed = @ \cup {prNumber}]]
  /\ UNCHANGED <<ledger, executionLog, req, hook>>

\* SyncPR that passes over a pull request without eligible files uncounted
SyncPR_silentNoFiles(s) ==
  /\ sync[s].pc = "pr"
  /\ \E approversOk \in BOOLEAN, filesOk \in BOOLEAN :
       LET p == [sync[s] EXCEPT !.lookup = IF approversOk THEN "ok" ELSE "failed"]
           prNumber == p.mergedPRs[p.prIdx]
           approvers == getPRApprovers(prNumber, approversOk)
           sqlFiles == IF filesOk THEN SqlFilesOf[prNumber] ELSE <<>>
       IN  sync' = [sync EXCEPT ![s] =
             IF Len(approvers) < MinApprovals
               THEN NextPR([p EXCEPT !.stats.skipped = @ + 1,
                                     !.failed = @ \/ ~approversOk,
                                     !.short = @ \cup {prNumber}])
             ELSE IF Len(sqlFiles) = 0
               THEN NextPR([p EXCEPT !.failed = @ \/ ~filesOk,
                                     !.listed = @ \cup {prNumber}])
             ELSE [p EXCEPT !.pc = "file", !.approvers = approvers,
                            !.sqlFiles = sqlFiles, !.fileIdx = 1,
                            !.listed = @ \cup {prNumber}]]
  /\ UNCHANGED <<ledger, executionLog, req, hook>>

\* SyncPR whose approver lookup is not caught: the failure reaches the catch
\* of the loop over mergedPRs and is counted as an error
SyncPR_lookupThrows(s) ==
  /\ sync[s].pc = "pr"
  /\ \E approversOk \in BOOLEAN, filesOk \in BOOLEAN :
       LET p == [sync[s] EXCEPT !.lookup = IF approversOk THEN "ok" ELSE "failed"]
           prNumber == p.mergedPRs[p.prIdx]
           approvers == getPRApprovers(prNumber, approversOk)
           sqlFiles == IF filesOk THEN SqlFilesOf[prNumber] ELSE <<>>
       IN  sync' = [sync EXCEPT ![s] =
             IF ~approversOk
               THEN NextPR([p EXCEPT !.stats.errors = @ + 1, !.failed = TRUE])
             ELSE IF Len(approvers) < MinApprovals
               THEN NextPR([p EXCEPT !.stats.skipped = @ + 1,
                                     !.short = @ \cup {prNumber}])
             ELSE IF Len(sqlFiles) = 0
               THEN NextPR([p EXCEPT !.stats.skipped = @ + 1,
                                     !.failed = @ \/ ~filesOk,
                                     !.listed = @ \cup {prNumber}])
             ELSE [p EXCEPT !.pc = "file", !.approvers = approvers,
                            !.sqlFiles = sqlFiles, !.fileIdx = 1,
                            !.listed = @ \cup {prNumber}]]
  /\ UNCHANGED <<ledger, executionLog, req, hook>>

\* lines 288-323: approvers, files and the filter for one pull request
SyncPR(s) ==
  /\ sync[s].pc = "pr"
  /\ \E approversOk \in BOOLEAN, filesOk \in BOOLEAN :
       LET p == [sync[s] EXCEPT !.lookup = IF approversOk THEN "ok" ELSE "failed"]
           prNumber == p.mergedPRs[p.prIdx]
           approvers == getPRApprovers(prNumber, approversOk)
           sqlFiles == IF filesOk THEN SqlFilesOf[prNumber] ELSE <<>>
       IN  sync' = [sync EXCEPT ![s] =
             IF Len(approvers) < MinApprovals
               THEN NextPR([p EXCEPT !.stats.skipped = @ + 1,
                                     !.failed = @ \/ ~approversOk,
                                     !.short = @ \cup {prNumber}])
             ELSE IF Len(sqlFiles) = 0
               THEN NextPR([p EXCEPT !.stats.skipped = @ + 1,
                                     !.failed = @ \/ ~filesOk,
                                     !.listed = @ \cup {prNumber}])
             ELSE [p EXCEPT !.pc = "file", !.approvers = approvers,
                            !.sqlFiles = sqlFiles, !.fileIdx = 1,
                            !.listed = @ \cup {prNumber}]]
  /\ UNCHANGED <<ledger, executionLog, req, hook>>

\* SyncFile without the check of existingSet, counting every insertion that
\* did not throw as synced
SyncFile_noCheck(s) ==
  /\ sync[s].pc = "file"
  /\ \E fetch \in FetchOutcomes, dbOk \in BOOLEAN :
       LET p == [sync[s] EXCEPT !.met = @ \cup {sync[s].sqlFiles[sync[s].fileIdx].scriptName}]
           prNumber == p.mergedPRs[p.prIdx]
           file == p.sqlFiles[p.fileIdx]
           scriptName == file.scriptName
           content == fetchScriptFromGitHub(file, fetch = "ok")
           added == addApprovedScript(ledger,
                      ScriptData(scriptName, content, prNumber, p.approvers),
                      dbOk)
       IN  IF IsFalsyContent(content)
             THEN /\ sync' = [sync EXCEPT ![s] =
                        NextFile([p EXCEPT !.stats.skipped = @ + 1,
                                           !.failed = @ \/ fetch # "ok",
                                           !.fetched = @ \cup {prNumber},
                                           !.unexpected = IF fetch = "error" THEN @ + 1 ELSE @,
                                           !.notFound = IF fetch = "notfound" THEN @ + 1 ELSE @])]
                  /\ UNCHANGED ledger
           ELSE /\ ledger' = added[2]
                /\ sync' = [sync EXCEPT ![s] =
                      NextFile([p EXCEPT !.stats.synced = @ + 1,
                                         !.existingSet = @ \cup {scriptName},
                                         !.inserted = IF added[1] THEN @ + 1 ELSE @,
                                         !.failed = @ \/ ~dbOk,
                                         !.dup = @ \/ Stored(scriptName),
                                         !.fetched = @ \cup {prNumber},
                                         !.insertedFor = @ \cup {prNumber},
                                         !.unexpected = IF added[1] THEN @ ELSE @ + 1])]
  /\ UNCHANGED <<executionLog, req, hook>>

\* SyncFile that does not add the name of an inserted script to existingSet
SyncFile_forgets(s) ==
  /\ sync[s].pc = "file"
  /\ \E fetch \in FetchOutcomes, dbOk \in BOOLEAN :
       LET p == [sync[s] EXCEPT !.met = @ \cup {sync[s].sqlFiles[sync[s].fileIdx].scriptName}]
           prNumber == p.mergedPRs[p.prIdx]
           file == p.sqlFiles[p.fileIdx]
           scriptName == file.scriptName
           content == fetchScriptFromGitHub(file, fetch = "ok")
           added == addApprovedScript(ledger,
                      ScriptData(scriptName, content, prNumber, p.approvers),
                      dbOk)
       IN  IF scriptName \in p.existingSet
             THEN /\ sync' = [sync EXCEPT ![s] = NextFile([p EXCEPT !.stats.skipped = @ + 1])]
                  /\ UNCHANGED ledger
           ELSE IF IsFalsyContent(content)
             THEN /\ sync' = [sync EXCEPT ![s] =
                        NextFile([p EXCEPT !.stats.skipped = @ + 1,
                                           !.failed = @ \/ fetch # "ok",
                                           !.fetched = @ \cup {prNumber},
                                           !.unexpected = IF fetch = "error" THEN @ + 1 ELSE @,
                                           !.notFound = IF fetch = "notfound" THEN @ + 1 ELSE @])]
                  /\ UNCHANGED ledger
           ELSE /\ ledger' = added[2]
                /\ sync' = [sync EXCEPT ![s] =
                      IF added[1]
                        THEN NextFile([p EXCEPT !.stats.synced = @ + 1,
                                                !.inserted = @ + 1,
                                                !.failed = @ \/ ~dbOk,
                                                !.dup = @ \/ Stored(scriptName),
                                                !.fetched = @ \cup {prNumber},
                                                !.insertedFor = @ \cup {prNumber}])
                        ELSE NextFile([p EXCEPT !.stats.errors = @ + 1,
                                                !.failed = @ \/ ~dbOk,
                                                !.dup = @ \/ Stored(scriptName),
                                                !.fetched = @ \cup {prNumber},
                                                !.insertedFor = @ \cup {prNumber},
                                                !.unexpected = @ + 1])]
  /\ UNCHANGED <<executionLog, req, hook>>

\* lines 326-394: one file of the pull request
SyncFile(s) ==
  /\ sync[s].pc = "file"
  /\ \E fetch \in FetchOutcomes, dbOk \in BOOLEAN :
       LET p == [sync[s] EXCEPT !.met = @ \cup {sync[s].sqlFiles[sync[s].fileIdx].scriptName}]
           prNumber == p.mergedPRs[p.prIdx]
           file == p.sqlFiles[p.fileIdx]
           scriptName == file.scriptName
           content == fetchScriptFromGitHub(file, fetch = "ok")
           added == addApprovedScript(ledger,
                      ScriptData(scriptName, content, prNumber, p.approvers),
                      dbOk)
       IN  IF scriptName \in p.existingSet
             THEN /\ sync' = [sync EXCEPT ![s] = NextFile([p EXCEPT !.stats.skipped = @ + 1])]
                  /\ UNCHANGED ledger
           ELSE IF IsFalsyContent(content)
             THEN /\ sync' = [sync EXCEPT ![s] =
                        NextFile([p EXCEPT !.stats.skipped = @ + 1,
                                           !.failed = @ \/ fetch # "ok",
                                           !.fetched = @ \cup {prNumber},
                                           !.unexpected = IF fetch = "error" THEN @ + 1 ELSE @,
                                           !.notFound = IF fetch = "notfound" THEN @ + 1 ELSE @])]
                  /\ UNCHANGED ledger
           ELSE /\ ledger' = added[2]
                /\ sync' = [sync EXCEPT ![s] =
                      IF added[1]
                        THEN NextFile([p EXCEPT !.stats.synced = @ + 1,
                                                !.existingSet = @ \cup {scriptName},
                                                !.inserted = @ + 1,
                                                !.failed = @ \/ ~dbOk,
                                                !.dup = @ \/ Stored(scriptName),
                                                !.fetched = @ \cup {prNumber},
                                                !.insertedFor = @ \cup {prNumber}])
                        ELSE NextFile([p EXCEPT !.stats.errors = @ + 1,
                                                !.failed = @ \/ ~dbOk,
                                                !.dup = @ \/ Stored(scriptName),
                                                !.fetched = @ \cup {prNumber},
                                                !.insertedFor = @ \cup {prNumber},
                                                !.unexpected = @ + 1])]
  /\ UNCHANGED <<executionLog, req, hook>>

(***************************************************************************)
(* The webhook delivery: action of api.webhook.github.                     *)
(***************************************************************************)
\* config.github.webhookSecret is set
WebhookSecretSet == TRUE

\* a request body: whether JSON.parse accepts it, and what it then holds
Payloads ==
  [json : BOOLEAN, action : {"closed", "opened"}, merged : BOOLEAN, number : PRNumbers]

\* "sha256=" + HMAC-SHA256(secret, payload) as hex: one digest per payload
Digest(payload) == <<"sha256=", payload>>

\* the header of a delivery that was not signed with the secret
BadSignature == <<>>

\* verifyWebhookSignature that accepts every header
verifyWebhookSignature_skips(payload, signature) == TRUE

verifyWebhookSignature(payload, signature) ==
  IF ~WebhookSecretSet THEN TRUE ELSE signature = Digest(payload)

\* observation: how the header of the delivery compares with the digest
Signed(payload, signature) == IF signature = Digest(payload) THEN "valid" ELSE "invalid"

\* lines 14-92: method, signature, JSON, merged, approvals, files
HookStart(h) ==
  /\ CanStart(hook, h)
  /\ \E method \in {"POST", "GET"}, payload \in Payloads :
     \E signature \in {Digest(payload), BadSignature} :
       IF method # "POST"
         THEN hook' = [hook EXCEPT ![h] = [@ EXCEPT !.pc = "done", !.status = 405]]
       ELSE IF ~verifyWebhookSignature(payload, signature)
         THEN hook' = [hook EXCEPT ![h] =
                [@ EXCEPT !.pc = "done", !.status = 401,
                          !.signed = Signed(payload, signature)]]
       ELSE IF ~payload.json
         THEN hook' = [hook EXCEPT ![h] =
                [@ EXCEPT !.pc = "done", !.status = 400,
                          !.signed = Signed(payload, signature), !.parsed = TRUE]]
       ELSE IF payload.action # "closed" \/ ~payload.merged
         THEN hook' = [hook EXCEPT ![h] =
                [@ EXCEPT !.pc = "done", !.status = 200,
                          !.signed = Signed(payload, signature), !.parsed = TRUE,
                          !.event = "other"]]
       ELSE \E approversOk \in BOOLEAN, filesOk \in BOOLEAN :
              LET approvers == getPRApprovers(payload.number, approversOk)
                  sqlFiles == IF filesOk THEN SqlFilesOf[payload.number] ELSE <<>>
                  p == [hook[h] EXCEPT !.signed = Signed(payload, signature),
                                       !.parsed = TRUE, !.event = "merged",
                                       !.called = TRUE]
              IN  hook' = [hook EXCEPT ![h] =
                    IF Len(approvers) < MinApprovals
                      THEN [p EXCEPT !.pc = "done", !.status = 200,
                                     !.prNumber = payload.number]
                    ELSE IF Len(sqlFiles) = 0
                      THEN [p EXCEPT !.pc = "done", !.status = 200,
                                     !.prNumber = payload.number]
                    ELSE [p EXCEPT !.pc = "file", !.prNumber = payload.number,
                                   !.approvers = approvers, !.sqlFiles = sqlFiles,
                                   !.fileIdx = 1]]
  /\ UNCHANGED <<ledger, executionLog, req, sync>>

\* the end of one iteration of the loop over sqlFiles
HookNextFile(p) ==
  IF p.fileIdx < Len(p.sqlFiles) THEN [p EXCEPT !.fileIdx = @ + 1]
  ELSE [p EXCEPT !.pc = "done", !.status = 200, !.fileIdx = 0, !.sqlFiles = <<>>,
                 !.approvers = <<>>]

\* lines 94-146: one file of the pull request
HookFile(h) ==
  /\ hook[h].pc = "file"
  /\ \E fetchOk \in BOOLEAN, dbOk \in BOOLEAN :
       LET p == hook[h]
           file == p.sqlFiles[p.fileIdx]
           scriptName == file.scriptName
           content == fetchScriptFromGitHub(file, fetchOk)
           added == addApprovedScript(ledger,
                      ScriptData(scriptName, content, p.prNumber, p.approvers), dbOk)
       IN  IF IsFalsyContent(content)
             THEN /\ hook' = [hook EXCEPT ![h] = HookNextFile(p)]
                  /\ UNCHANGED ledger
             ELSE /\ ledger' = added[2]
                  /\ hook' = [hook EXCEPT ![h] =
                        HookNextFile([p EXCEPT !.inserted = IF added[1] THEN @ + 1 ELSE @,
                                               !.dup = @ \/ Stored(scriptName),
                                               !.metExecuted = @ \/ StoredExecuted(scriptName)])]
  /\ UNCHANGED <<executionLog, req, sync>>

Next ==
  \/ (\E r \in Requests : StartRequest(r)) /\ UNCHANGED <<textVars, engineVars>>
  \/ (\E r \in Requests : Gate(r)) /\ UNCHANGED <<textVars, engineVars>>
  \/ (\E r \in Requests : Engine(r)) /\ UNCHANGED <<textVars, engineVars>>
  \/ (\E r \in Requests : Log(r)) /\ UNCHANGED <<textVars, engineVars>>
  \/ (\E r \in Requests : Update(r)) /\ UNCHANGED <<textVars, engineVars>>
  \/ (\E s \in Syncs : SyncStart(s)) /\ UNCHANGED <<textVars, engineVars>>
  \/ (\E s \in Syncs : SyncPR(s)) /\ UNCHANGED <<textVars, engineVars>>
  \/ (\E s \in Syncs : SyncFile(s)) /\ UNCHANGED <<textVars, engineVars>>
  \/ (\E h \in Hooks : HookStart(h)) /\ UNCHANGED <<textVars, engineVars>>
  \/ (\E h \in Hooks : HookFile(h)) /\ UNCHANGED <<textVars, engineVars>>

Spec == Init /\ [][Next]_vars

(***************************************************************************)
(* The functions on text, applied to texts put together from fragments:    *)
(* analyzeSQL and needsTransaction on the text of a script, and            *)
(* parseSQLMetadata, extractTargetDatabase and the insertion of the pass   *)
(* on the content of a fetched file.                                       *)
(***************************************************************************)
\* the fragments one text is put together from, at most
MaxFragments == 3

\* pieces of a script: statements, terminators, an end of line, a line
\* comment, a block comment, keywords in several cases
SqlFragments == <<
  <<"S","E","L","E","C","T"," ","1">>,
  <<";">>,
  <<NL>>,
  <<"-","-"," ","r","e","t","u","r","n","i","n","g",";">>,
  <<"/","*"," ","R","E","T","U","R","N","I","N","G",";"," ","*","/">>,
  <<" ","x"," ","R","e","T","u","r","n","i","n","g"," ","y">>,
  <<"B","E","G","I","N",";">>,
  <<"C","o","m","m","i","t">>,
  <<"u">>
>>

\* pieces of a fetched file: markers, values, ends of lines, runs of 19 and
\* of 20 empty lines
ContentFragments == <<
  <<"-","-"," ","D","i","r","e","c","t","P","r","o","d">>,
  <<":"," ","t","r","u","e">>,
  <<":"," ","f","a","l","s","e">>,
  <<":","Y","E","S">>,
  <<":"," ","1">>,
  <<"-","-"," ","d","i","r","e","c","t","_","p","r","o","d">>,
  <<"-","-"," ","D","i","r","e","c","t","-","P","r","o","d">>,
  <<NL>>,
  <<NL,NL,NL,NL,NL,NL,NL,NL,NL,NL,NL,NL,NL,NL,NL,NL,NL,NL,NL>>,
  <<NL,NL,NL,NL,NL,NL,NL,NL,NL,NL,NL,NL,NL,NL,NL,NL,NL,NL,NL,NL>>,
  <<"-","-"," ","T","a","r","g","e","t",":"," ">>,
  <<"P","R","O","D","U","C","T","I","O","N">>,
  <<"s","t","a","g","i","n","g">>,
  <<"-","-"," ","t","a","r","g","e","t",":"," ">>,
  <<"x">>
>>

RECURSIVE Join(_)
Join(parts) == IF parts = <<>> THEN <<>> ELSE Head(parts) \o Join(Tail(parts))

\* the texts of at most MaxFragments fragments
TextsOfLength(fragments, n) ==
  {Join([i \in 1..n |-> fragments[f[i]]]) : f \in [1..n -> 1..Len(fragments)]}

TextsOf(fragments) == UNION {TextsOfLength(fragments, n) : n \in 0..MaxFragments}

Inputs ==
  {[kind |-> "sql", chars |-> t] : t \in TextsOf(SqlFragments)}
    \cup {[kind |-> "content", chars |-> t] : t \in TextsOf(ContentFragments)}

\* the file, the pull request and the approvers of the fetched content
N_input == <<"i",".","s","q","l">>

InitText ==
  /\ ledger = <<>>
  /\ executionLog = <<>>
  /\ req = [r \in Requests |-> IdleReq]
  /\ sync = [s \in Syncs |-> IdleSync]
  /\ hook = [h \in Hooks |-> IdleHook]
  /\ input \in Inputs
  /\ output = NoOutput
  /\ exec = [r \in Requests |-> IdleExec]
  /\ pool = [t \in Targets |-> {}]
  /\ db = [t \in Targets |-> {}]

\* the engine's analysis of a script's text
AnalyzeText ==
  /\ input.kind = "sql"
  /\ output.kind = "none"
  /\ output' = [kind |-> "sql", analysis |-> analyzeSQL(input.chars),
                needsTransaction |-> needsTransaction(input.chars)]
  /\ UNCHANGED <<ledger, executionLog, req, sync, hook, input, engineVars>>

\* lines 357-381 of the pass for a fetched content: falsy content is passed
\* over, any other is parsed and inserted
ImportContent ==
  /\ input.kind = "content"
  /\ output.kind = "none"
  /\ output' = [kind |-> "content", metadata |-> parseSQLMetadata(input.chars),
                target |-> extractTargetDatabase(input.chars)]
  /\ ledger' = IF input.chars = <<>> THEN ledger
               ELSE addApprovedScript(ledger,
                      ScriptDataOf(N_input, input.chars, 1, <<"alice", "bob">>,
                                   parseSQLMetadata(input.chars),
                                   extractTargetDatabase(input.chars)),
                      TRUE)[2]
  /\ UNCHANGED <<executionLog, req, sync, hook, input, engineVars>>

NextText ==
  \/ AnalyzeText
  \/ ImportContent

SpecText == InitText /\ [][NextText]_vars

(***************************************************************************)
(* The execution engine step by step: executeSQL(target, sql) of db.server *)
(* between the handler's call (action, lines 93-97) and its audit step.    *)
(* One connection per invocation, taken from the pool of the target; a     *)
(* planned transaction around the statements of a script that needs one.   *)
(***************************************************************************)
\* the connections one pool hands out
PoolSize == 2

\* scripts of three statements, of one statement, and with a transaction of
\* their own
T_multi == <<"A",";","B",";","C",";">>
T_wrapped == <<"b","e","g","i","n",";",NL,"A",";","B",";",NL,"C","o","m","m","i","t",";">>

ScriptTextOf(id) ==
  CASE id = "multi" -> T_multi
    [] id = "wrapped" -> T_wrapped
    [] OTHER -> TextOf(id)

\* the non-empty statements between the terminators of the stripped text
statementsOf(cleaned) ==
  Cardinality({i \in 1..Len(split(cleaned, ";")) : trim(split(cleaned, ";")[i]) # <<>>})

\* the engine's plan for a script: a transaction around its statements run
\* one by one, or the text run as it is
PlanOf ==
  [id \in {"multi", "wrapped", "plain"} |->
     [planned |-> needsTransaction(ScriptTextOf(id)),
      statements |-> IF needsTransaction(ScriptTextOf(id))
                       THEN statementsOf(stripComments(ScriptTextOf(id)))
                       ELSE 1]]

\* the approved scripts the executions are requested for
EngineLedger ==
  <<[NoScript EXCEPT !.name = <<"m">>, !.content = "multi", !.targetDatabase = "staging",
                     !.githubPrUrl = 1, !.approvers = <<"alice", "bob">>],
    [NoScript EXCEPT !.name = <<"w">>, !.content = "wrapped", !.targetDatabase = "staging",
                     !.githubPrUrl = 1, !.approvers = <<"alice", "bob">>,
                     !.directProd = TRUE],
    [NoScript EXCEPT !.name = <<"p">>, !.content = "plain", !.targetDatabase = "production",
                     !.githubPrUrl = 1, !.approvers = <<"alice", "bob">>]>>

InitEngine ==
  /\ ledger = EngineLedger
  /\ executionLog = <<>>
  /\ req = [r \in Requests |-> IdleReq]
  /\ sync = [s \in Syncs |-> IdleSync]
  /\ hook = [h \in Hooks |-> IdleHook]
  /\ input = NoInput
  /\ output = NoOutput
  /\ exec = [r \in Requests |-> IdleExec]
  /\ pool = [t \in Targets |-> {}]
  /\ db = [t \in Targets |-> {}]

\* the connections of the target's pool that are not checked out
FreeConnections(target) == (1..PoolSize) \ pool[target]

\* the handler's call with the engine's result: the audit step is next
Returned(p, success) ==
  [p EXCEPT !.pc = "log", !.result = IF success THEN "success" ELSE "error"]

\* EngineAcquire that lets a failed acquisition escape to the handler
EngineAcquire_raises(r) ==
  /\ req[r].pc = "engine"
  /\ \E connected \in BOOLEAN :
       LET p == [req[r] EXCEPT !.engineCalls = @ + 1,
                               !.engineTarget = req[r].targetDatabase,
                               !.engineSql = req[r].script.content]
           target == req[r].targetDatabase
       IN  IF target \notin Targets \/ ~connected \/ FreeConnections(target) = {}
             THEN /\ req' = [req EXCEPT ![r] = [p EXCEPT !.pc = "done", !.response = "500"]]
                  /\ exec' = [exec EXCEPT ![r] =
                        [@ EXCEPT !.target = target, !.error = "connection",
                                  !.raised = TRUE]]
                  /\ UNCHANGED pool
             ELSE \E conn \in FreeConnections(target) :
                    /\ \A c \in FreeConnections(target) : conn <= c
                    /\ req' = [req EXCEPT ![r] = [p EXCEPT !.pc = "run"]]
                    /\ pool' = [pool EXCEPT ![target] = @ \cup {conn}]
                    /\ exec' = [exec EXCEPT ![r] =
                          [@ EXCEPT !.conn = conn, !.target = target,
                                    !.planned = PlanOf[req[r].script.content].planned,
                                    !.statements = PlanOf[req[r].script.content].statements,
                                    !.next = 1,
                                    !.tx = IF PlanOf[req[r].script.content].planned
                                             THEN "open" ELSE "none"]]
  /\ UNCHANGED <<ledger, executionLog, sync, hook, textVars, db>>

\* EngineAcquire that takes any connection of the pool, checked out or not
EngineAcquire_anyConnection(r) ==
  /\ req[r].pc = "engine"
  /\ \E connected \in BOOLEAN :
       LET p == [req[r] EXCEPT !.engineCalls = @ + 1,
                               !.engineTarget = req[r].targetDatabase,
                               !.engineSql = req[r].script.content]
           target == req[r].targetDatabase
       IN  IF target \notin Targets \/ ~connected
             THEN /\ req' = [req EXCEPT ![r] = Returned(p, FALSE)]
                  /\ exec' = [exec EXCEPT ![r] =
                        [@ EXCEPT !.target = target, !.error = "connection"]]
                  /\ UNCHANGED pool
             ELSE \E conn \in 1..PoolSize :
                    /\ req' = [req EXCEPT ![r] = [p EXCEPT !.pc = "run"]]
                    /\ pool' = [pool EXCEPT ![target] = @ \cup {conn}]
                    /\ exec' = [exec EXCEPT ![r] =
                          [@ EXCEPT !.conn = conn, !.target = target,
                                    !.planned = PlanOf[req[r].script.content].planned,
                                    !.statements = PlanOf[req[r].script.content].statements,
                                    !.next = 1,
                                    !.tx = IF PlanOf[req[r].script.content].planned
                                             THEN "open" ELSE "none"]]
  /\ UNCHANGED <<ledger, executionLog, sync, hook, textVars, db>>

\* the engine is invoked: a connection of the target's pool is checked out
\* and, for a script that needs one, a transaction is begun; a target
\* without a pool, a failed connection or an exhausted pool is a result
\* with success = false
EngineAcquire(r) ==
  /\ req[r].pc = "engine"
  /\ \E connected \in BOOLEAN :
       LET p == [req[r] EXCEPT !.engineCalls = @ + 1,
                               !.engineTarget = req[r].targetDatabase,
                               !.engineSql = req[r].script.content]
           target == req[r].targetDatabase
       IN  IF target \notin Targets \/ ~connected \/ FreeConnections(target) = {}
             THEN /\ req' = [req EXCEPT ![r] = Returned(p, FALSE)]
                  /\ exec' = [exec EXCEPT ![r] =
                        [@ EXCEPT !.target = target, !.error = "connection"]]
                  /\ UNCHANGED pool
             ELSE \E conn \in FreeConnections(target) :
                    /\ \A c \in FreeConnections(target) : conn <= c
                    /\ req' = [req EXCEPT ![r] = [p EXCEPT !.pc = "run"]]
                    /\ pool' = [pool EXCEPT ![target] = @ \cup {conn}]
                    /\ exec' = [exec EXCEPT ![r] =
                          [@ EXCEPT !.conn = conn, !.target = target,
                                    !.planned = PlanOf[req[r].script.content].planned,
                                    !.statements = PlanOf[req[r].script.content].statements,
                                    !.next = 1,
                                    !.tx = IF PlanOf[req[r].script.content].planned
                                             THEN "open" ELSE "none"]]
  /\ UNCHANGED <<ledger, executionLog, sync, hook, textVars, db>>

\* what one statement can come to
StatementOutcomes == {"ok", "statement", "timeout"}

\* EngineStatement that stores every effect at once, transaction or not
EngineStatement_autocommit(r) ==
  /\ req[r].pc = "run"
  /\ \E outcome \in StatementOutcomes :
       LET e == exec[r]
           k == e.next
       IN  IF outcome = "ok"
             THEN /\ exec' = [exec EXCEPT ![r] =
                        [@ EXCEPT !.ran = @ \cup {k}, !.next = k + 1]]
                  /\ db' = [db EXCEPT ![e.target] = @ \cup {<<r, k>>}]
                  /\ req' = [req EXCEPT ![r] =
                        [@ EXCEPT !.pc = IF k < e.statements THEN "run"
                                         ELSE IF e.planned THEN "end" ELSE "release"]]
             ELSE /\ exec' = [exec EXCEPT ![r] =
                        [@ EXCEPT !.ran = @ \cup {k}, !.failedAt = k, !.error = outcome]]
                  /\ db' = db
                  /\ req' = [req EXCEPT ![r] =
                        [@ EXCEPT !.pc = IF e.planned THEN "end" ELSE "release"]]
  /\ UNCHANGED <<ledger, executionLog, sync, hook, textVars, pool>>

\* the next statement is run on the connection: its effect is pending in a
\* planned transaction and stored at once otherwise; a statement that fails
\* or times out is the last one run
EngineStatement(r) ==
  /\ req[r].pc = "run"
  /\ \E outcome \in StatementOutcomes :
       LET e == exec[r]
           k == e.next
       IN  IF outcome = "ok"
             THEN /\ exec' = [exec EXCEPT ![r] =
                        [@ EXCEPT !.ran = @ \cup {k}, !.next = k + 1,
                                  !.pending = IF e.planned THEN @ \cup {<<r, k>>} ELSE @]]
                  /\ db' = IF e.planned THEN db
                           ELSE [db EXCEPT ![e.target] = @ \cup {<<r, k>>}]
                  /\ req' = [req EXCEPT ![r] =
                        [@ EXCEPT !.pc = IF k < e.statements THEN "run"
                                         ELSE IF e.planned THEN "end" ELSE "release"]]
             ELSE /\ exec' = [exec EXCEPT ![r] =
                        [@ EXCEPT !.ran = @ \cup {k}, !.failedAt = k, !.error = outcome]]
                  /\ db' = db
                  /\ req' = [req EXCEPT ![r] =
                        [@ EXCEPT !.pc = IF e.planned THEN "end" ELSE "release"]]
  /\ UNCHANGED <<ledger, executionLog, sync, hook, textVars, pool>>

\* the planned transaction ends: commit after the last statement, rollback
\* after a failed one
EngineEnd(r) ==
  /\ req[r].pc = "end"
  /\ exec' = [exec EXCEPT ![r] =
        [@ EXCEPT !.pending = {},
                  !.tx = IF exec[r].failedAt = 0 THEN "committed" ELSE "rolledback"]]
  /\ db' = IF exec[r].failedAt = 0
             THEN [db EXCEPT ![exec[r].target] = @ \cup exec[r].pending]
             ELSE db
  /\ req' = [req EXCEPT ![r] = [@ EXCEPT !.pc = "release"]]
  /\ UNCHANGED <<ledger, executionLog, sync, hook, textVars, pool>>

\* the connection goes back to its pool and the result to the handler
EngineRelease(r) ==
  /\ req[r].pc = "release"
  /\ pool' = [pool EXCEPT ![exec[r].target] = @ \ {exec[r].conn}]
  /\ exec' = [exec EXCEPT ![r] = [@ EXCEPT !.conn = 0]]
  /\ req' = [req EXCEPT ![r] = Returned(req[r], exec[r].failedAt = 0)]
  /\ UNCHANGED <<ledger, executionLog, sync, hook, textVars, db>>

NextEngine ==
  \/ (\E r \in Requests : StartRequest(r)) /\ UNCHANGED <<textVars, engineVars>>
  \/ (\E r \in Requests : Gate(r)) /\ UNCHANGED <<textVars, engineVars>>
  \/ \E r \in Requests : EngineAcquire(r)
  \/ \E r \in Requests : EngineStatement(r)
  \/ \E r \in Requests : EngineEnd(r)
  \/ \E r \in Requests : EngineRelease(r)
  \/ (\E r \in Requests : Log(r)) /\ UNCHANGED <<textVars, engineVars>>
  \/ (\E r \in Requests : Update(r)) /\ UNCHANGED <<textVars, engineVars>>

SpecEngine == InitEngine /\ [][NextEngine]_vars

(***************************************************************************)
(* Properties.                                                             *)
(***************************************************************************)
\* the step of request r, if this step is one
Steps(r) == req'[r] # req[r]

\* the stored row of request r allows production
RowEligible(r) ==
  ledger[req[r].scriptId].stagingExecuted \/ ledger[req[r].scriptId].directProd

\* the execution flag of row i for a target
Flag(rows, i, target) ==
  IF target = "staging" THEN rows[i].stagingExecuted
  ELSE IF target = "production" THEN rows[i].productionExecuted
  ELSE FALSE

\* C1: a step of a production request whose stored row has stagingExecuted and
\* directProd both false ends the request with the rejection, and that request
\* has not called the engine; the step changes neither the ledger nor the log.
C1_RejectedBeforeEngine ==
  [][\A r \in Requests :
       (req[r].targetDatabase = "production" /\ Steps(r) /\ ~RowEligible(r)) =>
         /\ req'[r].pc = "done"
         /\ req'[r].response = "rejected"
         /\ req'[r].engineCalls = 0
         /\ ledger' = ledger
         /\ executionLog' = executionLog]_vars

\* a production request was rejected at the gate
C1_Witness ==
  \E r \in Requests :
    /\ req[r].pc = "done"
    /\ req[r].response = "rejected"
    /\ req[r].targetDatabase = "production"
    /\ ~RowEligible(r)

\* C2: a row with productionExecuted set was set by a production request whose
\* gate found stagingExecuted or directProd stored for that row; so the row
\* itself has one of the two.
C2_ProductionOnlyAfterGate ==
  \A i \in 1..Len(ledger) :
    ledger[i].productionExecuted =>
      /\ ledger[i].stagingExecuted \/ ledger[i].directProd
      /\ \E r \in Requests :
           /\ req[r].scriptId = i
           /\ req[r].targetDatabase = "production"
           /\ req[r].gate = "yes"
           /\ req[r].stored
           /\ req[r].updated

\* a script without the override went to production after its staging run,
\* while reconciliation or a webhook was part of the behaviour
C2_Witness ==
  \E i \in 1..Len(ledger) :
    /\ ledger[i].productionExecuted
    /\ ledger[i].stagingExecuted
    /\ ~ledger[i].directProd

\* C3: no step removes a row, renames it or resets one of its execution flags.
C3_FlagsMonotonic ==
  [][\A i \in 1..Len(ledger) :
       /\ i <= Len(ledger')
       /\ ledger'[i].name = ledger[i].name
       /\ ledger[i].stagingExecuted => ledger'[i].stagingExecuted
       /\ ledger[i].productionExecuted => ledger'[i].productionExecuted]_vars

\* a webhook delivery handed addApprovedScript a file whose script name has a
\* row with an execution flag set; the flag is still set
C3_Witness ==
  /\ \E h \in Hooks : hook[h].metExecuted
  /\ \E i \in 1..Len(ledger) : ledger[i].stagingExecuted

\* C4: the gate step of a production request lets the request through exactly
\* when the stored row, read in that step, has stagingExecuted or directProd;
\* a production request is at the engine only after its own gate step.
C4_GateReadsStoredState ==
  [][\A r \in Requests :
       /\ (req[r].pc = "gate" /\ Steps(r)) =>
            IF RowEligible(r)
              THEN req'[r].pc = "engine" /\ req'[r].gate = "yes"
              ELSE req'[r].pc = "done" /\ req'[r].response = "rejected"
       /\ (req'[r].pc = "engine" /\ req'[r].targetDatabase = "production") =>
            (req[r].pc \in {"gate", "engine"} /\ req'[r].gate = "yes")]_vars

\* two production requests for the same script are in flight together, each
\* let through by its own gate step
C4_Witness ==
  \E r1 \in Requests, r2 \in Requests :
    /\ r1 # r2
    /\ req[r1].pc = "engine" /\ req[r2].pc = "engine"
    /\ req[r1].targetDatabase = "production" /\ req[r2].targetDatabase = "production"
    /\ req[r1].scriptId = req[r2].scriptId
    /\ req[r1].gate = "yes" /\ req[r2].gate = "yes"

\* C5: a request calls the engine at most once; once it is past the log step
\* it has called logExecution exactly once if it called the engine and never
\* otherwise, and the status it handed over is success exactly when the engine
\* result was a success.
C5_OneAuditCallPerAttempt ==
  \A r \in Requests :
    /\ req[r].engineCalls \in {0, 1}
    /\ req[r].pc \in {"idle", "gate", "engine", "log"} => req[r].logCalls = 0
    /\ req[r].pc \in {"update", "done"} =>
         /\ req[r].logCalls = req[r].engineCalls
         /\ req[r].engineCalls = 1 =>
              ((req[r].logStatus = "success") <=> (req[r].result = "success"))
         /\ req[r].engineCalls = 1 => req[r].logStatus \in {"success", "error"}

\* a failed attempt was handed to logExecution with status error
C5_Witness ==
  \E r \in Requests :
    /\ req[r].pc = "done"
    /\ req[r].engineCalls = 1
    /\ req[r].result = "error"
    /\ req[r].logCalls = 1
    /\ req[r].logStatus = "error"

\* the engine's own outcome, as the response of the request
Outcome(r) == IF req[r].result = "success" THEN "success" ELSE "error"

C7_LogBeforeState ==
  /\ \A r \in Requests :
       /\ req[r].updateCalls > 0 => req[r].logCalls = 1
       /\ req[r].pc \in {"idle", "gate", "engine", "log"} => req[r].updateCalls = 0
  /\ \A i \in 1..Len(ledger) : \A target \in {"staging", "production"} :
       Flag(ledger, i, target) =>
         \E r \in Requests :
           /\ req[r].scriptId = i
           /\ req[r].targetDatabase = target
           /\ req[r].logCalls = 1
           /\ req[r].logStatus = "success"

\* between the two steps: the log call of a successful execution is made and
\* the flag is not yet set
C7_Witness ==
  \E r \in Requests :
    /\ req[r].pc = "update"
    /\ req[r].logCalls = 1
    /\ req[r].logStatus = "success"
    /\ ~Flag(ledger, req[r].scriptId, req[r].targetDatabase)

C9_NameUnique ==
  \A i \in 1..Len(ledger) : \A j \in 1..Len(ledger) :
    ledger[i].name = ledger[j].name => i = j

\* a pass whose snapshot lacked the name called addApprovedScript for a
\* script name that by then had a row
C9_Witness ==
  /\ \E s \in Syncs : sync[s].dup
  /\ Len(ledger) >= 1

\* the identities with an APPROVED review on a pull request (a review without
\* a user is one identity)
ApprovingIdentities(prNumber) ==
  LET reviews == PRByNumber(prNumber).reviews
  IN  {reviews[i].user : i \in {j \in 1..Len(reviews) : reviews[j].state = "APPROVED"}}

\* C10: every row comes from a pull request with at least MinApprovals
\* distinct approving identities, and carries that many approvers.
C10_OnlyApprovedChanges ==
  \A i \in 1..Len(ledger) :
    /\ Cardinality(ApprovingIdentities(ledger[i].githubPrUrl)) >= MinApprovals
    /\ Cardinality(SeqToSet(ledger[i].approvers)) >= MinApprovals

\* a pass imported from the first pull request, skipped the second, which one
\* identity approved twice, with its approver lookup answered, and went on
C10_Witness ==
  \E s \in Syncs :
    /\ sync[s].pc = "pr"
    /\ sync[s].prIdx = 3
    /\ ~sync[s].failed
    /\ sync[s].stats.synced = 1
    /\ sync[s].stats.skipped = 1

\* the step of pass s, if this step is one
SyncSteps(s) == sync'[s] # sync[s]

\* C11: a pull request of a pass that has fewer than MinApprovals approvers
\* adds one to skipped and nothing to synced and errors in the step that looks
\* up its approvers, and the pass never lists its files, fetches a content or
\* calls addApprovedScript for it.
C11_ShortOfApprovalsIsSkipped ==
  [][\A s \in Syncs :
       /\ (SyncSteps(s) /\ sync'[s].short # sync[s].short) =>
            /\ sync'[s].stats = [sync[s].stats EXCEPT !.skipped = @ + 1]
            /\ sync'[s].listed \subseteq sync[s].listed
            /\ sync'[s].fetched \subseteq sync[s].fetched
            /\ sync'[s].insertedFor \subseteq sync[s].insertedFor
            /\ ledger' = ledger
       /\ sync'[s].short \cap
            (sync'[s].listed \cup sync'[s].fetched \cup sync'[s].insertedFor) = {}]_vars

\* a pass skipped the pull request with two approving reviews of one identity
\* and imported a file of another pull request
C11_Witness ==
  \E s \in Syncs :
    /\ sync[s].pc = "pr"
    /\ 2 \in sync[s].short
    /\ sync[s].stats.skipped >= 1 /\ sync[s].stats.errors = 0
    /\ sync[s].insertedFor # {}

\* the loop goes on after the item of this step: the next file of the pull
\* request, else the next pull request, else the summary
ContinuesWithNext(s) ==
  IF sync[s].fileIdx < Len(sync[s].sqlFiles)
    THEN sync'[s].pc = "file" /\ sync'[s].fileIdx = sync[s].fileIdx + 1
         /\ sync'[s].prIdx = sync[s].prIdx
  ELSE IF sync[s].prIdx < Len(sync[s].mergedPRs)
    THEN sync'[s].pc = "pr" /\ sync'[s].prIdx = sync[s].prIdx + 1
  ELSE sync'[s].pc = "done"

\* C12: a step of a pass in which an item meets an unexpected error (a content
\* fetch that fails with something else than a 404, an insertion that fails)
\* adds one to errors, and the loop goes on with the next item.
C12_Original ==
  [][\A s \in Syncs :
       (SyncSteps(s) /\ sync'[s].unexpected = sync[s].unexpected + 1) =>
         /\ sync'[s].stats.errors = sync[s].stats.errors + 1
         /\ ContinuesWithNext(s)]_vars

\* C19: a request that called the engine called it with staging or production.
C19_Original ==
  \A r \in Requests :
    req[r].engineCalls > 0 => req[r].engineTarget \in {"staging", "production"}
(***************************************************************************)
(* Reading a script's text position by position: which characters lie in   *)
(* a comment, and what the text outside the comments begins and ends with. *)
(***************************************************************************)
\* p stands in s at position i
At(s, i, p) == i >= 1 /\ i + Len(p) - 1 <= Len(s) /\ SubSeq(s, i, i + Len(p) - 1) = p

\* position i lies between a line-comment marker and the end of its line
InLineComment(s, i) ==
  \E j \in 1..i : At(s, j, K_dashes) /\ \A k \in j..i : s[k] # NL

\* position i lies between an opening delimiter and the first closing
\* delimiter after it (both included)
InBlockComment(s, i) ==
  \E j \in 1..i :
    /\ At(s, j, K_open) /\ ~InLineComment(s, j)
    /\ \E k \in (j + 2)..Len(s) : At(s, k, K_close)
    /\ \A k \in (j + 2)..(i - 2) : ~At(s, k, K_close)

OutsideComments(s, i) == ~InLineComment(s, i) /\ ~InBlockComment(s, i)

\* the statement terminators outside the comments
Terminators(s) == {i \in 1..Len(s) : s[i] = ";" /\ OutsideComments(s, i)}

\* the keyword stands at position i, outside the comments, in any case
KeywordAt(s, i, keyword) ==
  /\ At(toLowerCase(s), i, keyword)
  /\ \A k \in i..(i + Len(keyword) - 1) : OutsideComments(s, k)

\* but for white space, the text outside the comments begins with the keyword
BeginsWithKeyword(s, keyword) ==
  \E i \in 1..Len(s) :
    /\ KeywordAt(s, i, keyword)
    /\ \A k \in 1..(i - 1) : OutsideComments(s, k) => IsSpace(s[k])

\* but for white space and one terminator directly after the keyword, the
\* text outside the comments ends with the keyword
EndsWithKeyword(s, keyword) ==
  \E i \in 1..Len(s) :
    /\ KeywordAt(s, i, keyword)
    /\ \A k \in (i + Len(keyword))..Len(s) :
         OutsideComments(s, k) =>
           \/ IsSpace(s[k])
           \/ s[k] = ";" /\ \A m \in (i + Len(keyword))..(k - 1) : ~OutsideComments(s, m)

\* the text is wrapped in an explicit BEGIN ... COMMIT pair
WrappedInTransaction(s) == BeginsWithKeyword(s, K_begin) /\ EndsWithKeyword(s, K_commit)

\* C16: needsTransaction is true exactly when the text outside the comments
\* holds more than one statement terminator and is not already wrapped in an
\* explicit BEGIN ... COMMIT pair, in any case: no or one terminator gives
\* false, "SELECT 1;;" gives true, a wrapped script gives false.
C16_NeedsTransaction ==
  output.kind = "sql" =>
    (output.needsTransaction <=>
       /\ Cardinality(Terminators(input.chars)) > 1
       /\ ~WrappedInTransaction(input.chars))

\* a script with two terminators outside its comments and a third in a
\* comment was analysed, and needs a transaction
C16_Witness ==
  /\ output.kind = "sql"
  /\ output.needsTransaction
  /\ Cardinality(Terminators(input.chars)) = 2
  /\ \E i \in 1..Len(input.chars) :
       input.chars[i] = ";" /\ ~OutsideComments(input.chars, i)

\* RETURNING stands somewhere outside the comments, in any case
ReturningOutsideComments(s) == \E i \in 1..Len(s) : KeywordAt(s, i, K_returning)

\* C17: shouldCaptureRows is true exactly when the text outside the comments
\* begins with SELECT or RETURNING occurs outside the line comments and the
\* block comments, in any case; a RETURNING that occurs only inside comments
\* does not set hasReturning.
C17_ShouldCaptureRows ==
  output.kind = "sql" =>
    /\ output.analysis.hasReturning <=> ReturningOutsideComments(input.chars)
    /\ output.analysis.shouldCaptureRows <=>
         \/ BeginsWithKeyword(input.chars, K_select)
         \/ ReturningOutsideComments(input.chars)

\* a script that names RETURNING in a line comment and in a block comment
\* only, and does not begin with SELECT, was analysed: no rows are captured
C17_Witness ==
  /\ output.kind = "sql"
  /\ \E i, j \in 1..Len(input.chars) :
       /\ At(toLowerCase(input.chars), i, K_returning) /\ InLineComment(input.chars, i)
       /\ At(toLowerCase(input.chars), j, K_returning) /\ InBlockComment(input.chars, j)
  /\ ~output.analysis.hasReturning
  /\ ~output.analysis.shouldCaptureRows

\* what follows the marker's name is one of the accepted forms: nothing, or
\* a colon and one of true, yes, 1 (in any case)
AcceptedDirectProdValue(rest) ==
  \/ rest = <<>>
  \/ startsWith(rest, <<":">>) /\ trim(Tail(rest)) \in {K_true, K_yes, K_one}

\* the line carries the marker at position i: the dashes, the name DirectProd
\* in any case, and an accepted form after it
DirectProdMarkerAt(line, i) ==
  /\ At(line, i, K_dashes)
  /\ startsWith(toLowerCase(skipSpaces(SubSeq(line, i + 2, Len(line)))), K_directprod)
  /\ AcceptedDirectProdValue(
       trim(toLowerCase(dropPrefix(skipSpaces(SubSeq(line, i + 2, Len(line))),
                                   K_directprod))))

\* one of the first 20 lines carries the marker in an accepted form
CarriesDirectProd(content) ==
  \E n \in 1..Len(slice(split(content, NL), MetadataLines)) :
    \E i \in 1..Len(split(content, NL)[n]) :
      DirectProdMarkerAt(split(content, NL)[n], i)

\* C18: the parsed directProd is true if and only if one of the first 20
\* lines carries the marker as DirectProd, DirectProd: true, DirectProd: yes
\* or DirectProd: 1 (in any case); any other value such as DirectProd: false,
\* the hyphen or underscore spelling, or no marker leaves it not true.
C18_Original ==
  output.kind = "content" =>
    (output.metadata.directProd <=> CarriesDirectProd(input.chars))

\* the lines the metadata is read from
MetadataLinesOf(content) == slice(split(content, NL), MetadataLines)

\* the line is a Target line, in any spelling case of the field name, and its
\* trimmed value is production in any case
NamesProduction(line) ==
  /\ startsWith(toLowerCase(line), toLowerCase(K_Target))
  /\ trim(toLowerCase(dropPrefix(line, K_Target))) = K_production

\* the last line that begins with "-- Target:" has the value production
LastTargetIsProduction(lines) ==
  \E n \in 1..Len(lines) :
    /\ startsWith(lines[n], K_Target) /\ NamesProduction(lines[n])
    /\ \A k \in (n + 1)..Len(lines) : ~startsWith(lines[k], K_Target)

ResultReturned(r) == req[r].engineCalls > 0 /\ req[r].pc \in {"log", "update", "done"}

\* C13: for a script executed under an automatically planned transaction,
\* if the k-th statement fails then, when the result is returned, a rollback
\* has been issued, no statement after the k-th was executed, no effect of
\* statements 1..k-1 remains in the target database, the result has
\* success = false, and the logged entry has status error.
C13_RollbackOnFailure ==
  \A r \in Requests :
    (ResultReturned(r) /\ exec[r].planned /\ exec[r].failedAt > 0) =>
      /\ exec[r].tx = "rolledback"
      /\ exec[r].ran = 1..exec[r].failedAt
      /\ \A k \in 1..exec[r].statements : <<r, k>> \notin db[exec[r].target]
      /\ req[r].result = "error"
      /\ req[r].pc \in {"update", "done"} =>
           /\ req[r].logCalls = 1
           /\ req[r].logStatus = "error"
           /\ req[r].logWritten =>
                \E i \in 1..Len(executionLog) :
                  /\ executionLog[i].scriptName = req[r].script.name
                  /\ executionLog[i].status = "error"

\* a script of three statements ran in a planned transaction, its second
\* statement failed, and the request ended with its entry logged
C13_Witness ==
  \E r \in Requests :
    /\ req[r].pc = "done"
    /\ exec[r].planned /\ exec[r].statements = 3
    /\ exec[r].failedAt = 2 /\ exec[r].error = "statement"
    /\ req[r].logWritten

\* C14: the execution engine never raises to its caller: a failed connection
\* acquisition, a statement error and a timeout all give a returned result
\* with success = false and an error string, so the caller's audit step is
\* reached after every engine invocation.
C14_EngineNeverRaises ==
  \A r \in Requests :
    /\ ~exec[r].raised
    /\ (req[r].engineCalls > 0 /\ req[r].pc = "done") => req[r].logCalls = 1
    /\ (ResultReturned(r) /\ exec[r].error # "none") =>
         /\ req[r].result = "error"
         /\ exec[r].error \in {"connection", "statement", "timeout"}
    /\ (ResultReturned(r) /\ exec[r].error = "none") => req[r].result = "success"

\* one request whose connection could not be acquired and one whose
\* statement timed out have both ended, each after its audit step
C14_Witness ==
  \E r1, r2 \in Requests :
    /\ req[r1].pc = "done" /\ exec[r1].error = "connection" /\ req[r1].logCalls = 1
    /\ req[r2].pc = "done" /\ exec[r2].error = "timeout" /\ req[r2].logCalls = 1
    /\ req[r1].logStatus = "error" /\ req[r2].logStatus = "error"

\* the requests that hold a connection
Holding == {r \in Requests : exec[r].conn # 0}

RequestSteps(r) == req'[r] # req[r]

\* the audit step of a request whose engine reported failure
FailedAuditStep(r) == RequestSteps(r) /\ req[r].pc = "log" /\ req[r].result = "error"

\* the status update of a request that succeeded on staging
StagingUpdateStep(r) ==
  RequestSteps(r) /\ req[r].pc = "update" /\ req[r].targetDatabase = "staging"

GoesOn(s) ==
  \/ sync'[s].pc = "file" /\ sync'[s].prIdx = sync[s].prIdx
       /\ sync'[s].fileIdx = sync[s].fileIdx + 1
  \/ sync'[s].pc = "pr" /\ sync'[s].prIdx = sync[s].prIdx + 1
  \/ sync'[s].pc = "done"

\* a step of pass s in which the content fetch failed with something other
\* than not-found
FetchErrorStep(s) ==
  /\ sync[s].pc = "file"
  /\ sync'[s].unexpected = sync[s].unexpected + 1
  /\ sync'[s].insertedFor = sync[s].insertedFor
  /\ sync[s].mergedPRs[sync[s].prIdx] \notin sync[s].insertedFor

\* a step of pass s in which the content was not found
NotFoundStep(s) == sync[s].pc = "file" /\ sync'[s].notFound = sync[s].notFound + 1

\* C22: in a reconciliation pass, a content fetch that finds nothing (file
\* deleted after the merge) is counted under skipped, any other fetch
\* failure under errors; in both cases no ledger entry is created for the
\* file and the pass goes on with the next file.
C22_Original ==
  [][\A s \in Syncs :
       /\ NotFoundStep(s) =>
            /\ sync'[s].stats = [sync[s].stats EXCEPT !.skipped = @ + 1]
            /\ ledger' = ledger
            /\ GoesOn(s)
       /\ FetchErrorStep(s) =>
            /\ sync'[s].stats = [sync[s].stats EXCEPT !.errors = @ + 1]
            /\ ledger' = ledger
            /\ GoesOn(s)]_vars

\* the lines that begin with the field's name in any spelling case
FieldLines(lines, prefix) ==
  {n \in 1..Len(lines) : startsWith(toLowerCase(lines[n]), toLowerCase(prefix))}

\* the trimmed value after the colon of the last such line, if there is one
FieldValue(lines, prefix) ==
  IF FieldLines(lines, prefix) = {} THEN Undefined
  ELSE trim(dropPrefix(lines[CHOOSE n \in FieldLines(lines, prefix) :
                               \A k \in FieldLines(lines, prefix) : k <= n],
                       prefix))

\* C23: the metadata parser recognizes the field names Author, Purpose,
\* Target and Date in any spelling case: each metadata field is the trimmed
\* value after the colon of the line, among the first 20, that names it.
C23_Original ==
  output.kind = "content" =>
    /\ output.metadata.author = FieldValue(MetadataLinesOf(input.chars), K_Author)
    /\ output.metadata.purpose = FieldValue(MetadataLinesOf(input.chars), K_Purpose)
    /\ output.metadata.target = FieldValue(MetadataLinesOf(input.chars), K_Target)
    /\ output.metadata.date = FieldValue(MetadataLinesOf(input.chars), K_Date)

\* a step of webhook delivery h
HookSteps(h) == hook'[h] # hook[h]

\* C24: a webhook delivery whose signature header is not the digest of the
\* raw payload under the configured secret is answered with 401 before the
\* payload is parsed, and causes no call to the change source and no ledger
\* insertion; a delivery that is not a closed-and-merged pull request causes
\* no ledger insertion; with a secret configured the verification is never
\* skipped.
C24_UnsignedDeliveryRejected ==
  [][\A h \in Hooks :
       /\ hook'[h].signed = "invalid" =>
            /\ hook'[h].pc = "done" /\ hook'[h].status = 401
            /\ ~hook'[h].parsed /\ ~hook'[h].called
            /\ hook'[h].inserted = 0
       /\ hook'[h].event = "other" =>
            hook'[h].pc = "done" /\ ~hook'[h].called /\ hook'[h].inserted = 0
       /\ (WebhookSecretSet /\ hook'[h].parsed) => hook'[h].signed = "valid"
       /\ (HookSteps(h) /\ ledger' # ledger) =>
            hook'[h].signed = "valid" /\ hook'[h].event = "merged"]_vars

\* a delivery with a wrong signature was answered with 401 while the ledger
\* holds scripts imported by a pass
C24_Witness ==
  \E h \in Hooks :
    /\ hook[h].pc = "done" /\ hook[h].status = 401 /\ hook[h].signed = "invalid"
    /\ Len(ledger) > 0

\* C25: each execution-log entry is a snapshot taken at execution time: its
\* script content is the SQL text passed to the engine in that attempt and
\* its target the target the engine was invoked with; no later step, such as
\* a change of the ledger entry, alters an entry of the log.
C25_LogIsSnapshot ==
  [][/\ Len(executionLog') >= Len(executionLog)
     /\ SubSeq(executionLog', 1, Len(executionLog)) = executionLog
     /\ \A r \in Requests :
          (RequestSteps(r) /\ executionLog' # executionLog) =>
            /\ Len(executionLog') = Len(executionLog) + 1
            /\ executionLog'[Len(executionLog')].scriptContent = req[r].engineSql
            /\ executionLog'[Len(executionLog')].targetDatabase = req[r].engineTarget
            /\ executionLog'[Len(executionLog')].scriptName = req[r].script.name]_vars

\* the log holds the entry of a staging execution of a script whose ledger
\* row names another target and has been marked executed since
C25_Witness ==
  \E i \in 1..Len(executionLog), j \in 1..Len(ledger) :
    /\ ledger[j].name = executionLog[i].scriptName
    /\ executionLog[i].targetDatabase = "staging"
    /\ ledger[j].targetDatabase = "production"
    /\ ledger[j].stagingExecuted

\* no audit write has failed
NoAuditWriteFailed == \A r \in Requests : req[r].logCalls > 0 => req[r].logWritten

\* the log holds a success entry of this script on this target
LoggedSuccess(name, target) ==
  \E i \in 1..Len(executionLog) :
    /\ executionLog[i].scriptName = name
    /\ executionLog[i].targetDatabase = target
    /\ executionLog[i].status = "success"

\* C26: in every reachable state in which no audit write has failed, a
\* ledger entry with stagingExecuted (productionExecuted) has at least one
\* execution-log entry with its script name, that target and status success.
C26_FlagHasLogEntry ==
  NoAuditWriteFailed =>
    \A j \in 1..Len(ledger) :
      /\ ledger[j].stagingExecuted => LoggedSuccess(ledger[j].name, "staging")
      /\ ledger[j].productionExecuted => LoggedSuccess(ledger[j].name, "production")

\* no audit write has failed and a script is marked executed on staging and
\* on production
C26_Witness ==
  /\ NoAuditWriteFailed
  /\ \E j \in 1..Len(ledger) : ledger[j].stagingExecuted /\ ledger[j].productionExecuted

\* C27: no promotion state disables execution: a staging request is passed
\* to the engine in every state, and a production request is passed to the
\* engine whenever stagingExecuted or directProd holds, also when
\* productionExecuted is already true; every request passed to the engine
\* invokes it and then makes its own audit call, so a script can be executed
\* on production more than once, each attempt with its own log entry.
C27_NoStateDisablesExecution ==
  [][\A r \in Requests :
       RequestSteps(r) =>
         /\ (req[r].pc = "idle" /\ req'[r].targetDatabase = "staging") =>
              req'[r].pc = "engine"
         /\ (req[r].pc = "gate" /\ StoredEligible(ledger, req[r].scriptId)) =>
              req'[r].pc = "engine"
         /\ req[r].pc = "engine" =>
              req'[r].pc = "log" /\ req'[r].engineCalls = req[r].engineCalls + 1
         /\ req[r].pc = "log" =>
              /\ req'[r].logCalls = req[r].logCalls + 1
              /\ req'[r].logWritten =>
                   executionLog' = Append(executionLog, executionLog'[Len(executionLog')])]_vars

\* a script already marked executed on production was passed to the engine
\* for production again, and the log holds two production entries of it
C27_Witness ==
  \E r \in Requests :
    /\ req[r].pc = "done" /\ req[r].targetDatabase = "production"
    /\ req[r].gate = "yes" /\ req[r].logWritten
    /\ \E i, j \in 1..Len(executionLog) :
         /\ i < j
         /\ executionLog[i].scriptName = req[r].script.name
         /\ executionLog[j].scriptName = req[r].script.name
         /\ executionLog[i].targetDatabase = "production"
         /\ executionLog[j].targetDatabase = "production"
         /\ executionLog[i].status = "success"
    /\ ledger[req[r].scriptId].productionExecuted

\* exactly one of the three counters grew, by one
OneCounted(before, after) ==
  \/ after = [before EXCEPT !.synced = @ + 1]
  \/ after = [before EXCEPT !.skipped = @ + 1]
  \/ after = [before EXCEPT !.errors = @ + 1]

\* C28: in a reconciliation pass, each change passed over at change level
\* (too few approvals, no eligible files) adds exactly one to skipped, each
\* eligible file of the other changes adds one to exactly one of synced,
\* skipped and errors, and synced equals the number of ledger insertions
\* that reported success during the pass.
C28_CounterAccounting ==
  [][\A s \in Syncs :
       SyncSteps(s) =>
         /\ sync[s].pc = "pr" =>
              IF sync'[s].pc = "file" /\ sync'[s].prIdx = sync[s].prIdx
                THEN sync'[s].stats = sync[s].stats
                ELSE sync'[s].stats = [sync[s].stats EXCEPT !.skipped = @ + 1]
         /\ sync[s].pc = "file" =>
              /\ OneCounted(sync[s].stats, sync'[s].stats)
              /\ (sync'[s].stats.synced = sync[s].stats.synced + 1) <=>
                   (sync'[s].inserted = sync[s].inserted + 1)
              /\ (sync'[s].inserted = sync[s].inserted + 1) =>
                   Len(ledger') = Len(ledger) + 1
         /\ sync'[s].stats.synced = sync'[s].inserted]_vars

\* a pass returned with something under each of its three counters
C28_Witness ==
  \E s \in Syncs :
    /\ sync[s].pc = "done"
    /\ sync[s].stats.synced > 0 /\ sync[s].stats.skipped > 0 /\ sync[s].stats.errors > 0
    /\ sync[s].stats.synced = sync[s].inserted

\* the file a pass at its file step is about to process
CurrentFile(s) == sync[s].sqlFiles[sync[s].fileIdx]

\* a file step of pass s
FileSteps(s) == SyncSteps(s) /\ sync[s].pc = "file"

\* the pass is still under way after the step (the record of a returned
\* pass keeps its counters and drops what it met on the way)
UnderWay(s) == sync'[s].pc # "done"

\* the step passed the file over: counted under skipped, no content fetched,
\* nothing inserted
SkippedUnfetched(s) ==
  /\ sync'[s].stats = [sync[s].stats EXCEPT !.skipped = @ + 1]
  /\ UnderWay(s) => /\ sync'[s].notFound = sync[s].notFound
                    /\ sync'[s].unexpected = sync[s].unexpected
  /\ sync'[s].inserted = sync[s].inserted
  /\ ledger' = ledger

\* the row a step inserted has the last path segment of the file name as name
KeyIsLastSegment(s) ==
  (sync'[s].inserted = sync[s].inserted + 1) =>
    /\ Len(ledger') = Len(ledger) + 1
    /\ ledger'[Len(ledger')].name = lastSegment(CurrentFile(s).filename)

\* C29 as stated: the ledger key of an imported file is the last path
\* segment of its file name; of the eligible files met in one pass that
\* share it, only the first is inserted, every later one is counted under
\* skipped without its content being fetched.
C29_Original ==
  [][\A s \in Syncs :
       FileSteps(s) =>
         /\ KeyIsLastSegment(s)
         /\ lastSegment(CurrentFile(s).filename) \in sync[s].met => SkippedUnfetched(s)]_vars

\* C29: the ledger key of an imported file is the last path segment of its
\* file name; once a file of that name has been inserted in the pass, or
\* when the name was in the ledger at the start of the pass, every later
\* eligible file with that last segment is counted under skipped without
\* its content being fetched; a later file whose predecessor was not
\* inserted is fetched like a first one.
C29_FirstInsertedWins ==
  [][\A s \in Syncs :
       FileSteps(s) =>
         /\ KeyIsLastSegment(s)
         /\ (sync'[s].inserted = sync[s].inserted + 1 /\ UnderWay(s)) =>
              lastSegment(CurrentFile(s).filename) \in sync'[s].existingSet
         /\ lastSegment(CurrentFile(s).filename) \in sync[s].existingSet =>
              SkippedUnfetched(s)
         /\ (lastSegment(CurrentFile(s).filename) \notin sync[s].existingSet /\ UnderWay(s)) =>
              ~SkippedUnfetched(s)]_vars

\* a pass inserted sql/a.sql of pull request 1 and passed over sql/x/a.sql
\* of pull request 3 without fetching anything for that pull request
C29_Witness ==
  \E s \in Syncs :
    /\ sync[s].pc = "file" /\ sync[s].mergedPRs[sync[s].prIdx] = 3 /\ sync[s].fileIdx = 2
    /\ 1 \in sync[s].insertedFor /\ sync[s].inserted = 1
    /\ 3 \notin sync[s].fetched
    /\ lastSegment(F_xa) \in sync[s].met
    /\ lastSegment(F_xa) = lastSegment(F_a)

\* the pull request a pass is looking at
CurrentPR(s) == sync[s].mergedPRs[sync[s].prIdx]

\* a step of pass s in which the approver lookup of its pull request failed
LookupFailedStep(s) ==
  /\ SyncSteps(s) /\ sync[s].pc = "pr"
  /\ sync'[s].lookup = "failed"

\* the first step of pass s, in which listing the merged pull requests failed
ListFailedStep(s) ==
  /\ sync[s].pc = "idle" /\ sync'[s].pc # "idle"
  /\ sync'[s].failed

\* the pull request whose approver lookup pass s made last, once the pass has
\* gone on to the next one
PreviousPR(s) == sync[s].mergedPRs[sync[s].prIdx - 1]

\* C30: reconciliation fails closed on collaborator failures. A pull request
\* whose approver lookup failed is treated as one with no approvers: with
\* MinApprovals >= 1 the step counts it under skipped and not under errors,
\* lists and fetches none of its files and leaves the ledger as it is, and the
\* pass goes on without a file of it listed, fetched or inserted. When listing
\* the merged pull requests fails the pass ends at once with synced = 0,
\* skipped = 0 and errors = 0 and the ledger unchanged.
C30_FailsClosed ==
  [][\A s \in Syncs :
       /\ MinApprovals >= 1
       /\ LookupFailedStep(s) =>
            /\ sync'[s].stats = [sync[s].stats EXCEPT !.skipped = @ + 1]
            /\ CurrentPR(s) \in sync'[s].short
            /\ sync'[s].pc # "file"
            /\ sync'[s].inserted = sync[s].inserted
            /\ UnderWay(s) => /\ sync'[s].listed = sync[s].listed
                              /\ sync'[s].fetched = sync[s].fetched
                              /\ sync'[s].insertedFor = sync[s].insertedFor
            /\ ledger' = ledger
       /\ (sync[s].lookup = "failed" /\ sync[s].pc # "done") =>
            /\ sync[s].pc = "pr"
            /\ PreviousPR(s) \notin
                 (sync[s].listed \cup sync[s].fetched \cup sync[s].insertedFor)
       /\ ListFailedStep(s) =>
            /\ sync'[s].pc = "done"
            /\ sync'[s].stats = NoStats
            /\ sync'[s].inserted = 0
            /\ ledger' = ledger]_vars

\* one pass ended after the approver lookup of the fully approved pull request
\* 3 failed, with that pull request skipped and no error counted; another
\* ended with nothing counted because listing the merged pull requests failed
C30_Witness ==
  \E s1 \in Syncs, s2 \in Syncs :
    /\ sync[s1].pc = "done"
    /\ sync[s1].lookup = "failed" /\ 3 \in sync[s1].short
    /\ Len(getPRApprovers(3, TRUE)) >= MinApprovals
    /\ sync[s1].stats.skipped >= 1 /\ sync[s1].stats.errors = 0
    /\ sync[s2].pc = "done" /\ sync[s2].failed
    /\ sync[s2].stats = NoStats /\ sync[s2].lookup = "none"

====
